---------------------------- MODULE Spec2Model ----------------------------
(***************************************************************************)
(* Model of the adimology watchlist analysis: the relational store         *)
(* (lib/supabase), the data-provider client with its process-local token   *)
(* cache (lib/stockbit), the background batch job and the equivalent       *)
(* route handler, and the two variants of getTopBroker.                    *)
(***************************************************************************)
EXTENDS Integers, Sequences, FiniteSets, TLC

(***************************************************************************)
(* Bounds of the model.                                                    *)
(***************************************************************************)
\* number of handler invocations (scheduled runs and manual retries)
MaxRuns == 2
\* calendar days the model spans
MaxDate == 3
\* interactive /api/stock saves interleaved with the batch
MaxQueries == 1
\* data-provider calls begun by the callers of one process
MaxCalls == 3
\* steps of the clock
MaxTicks == 2
\* elements of brokers_buy
MaxBrokers == 2
\* requests to the retry endpoint
MaxRetries == 2

(***************************************************************************)
(* Values.                                                                 *)
(***************************************************************************)
\* SQL NULL / JS null of a text column
NULL == "null"
\* JS undefined of an optional argument or property
UNDEFINED == "undefined"
\* SQL NULL of a numeric column (prices and counts are positive)
NULLNUM == 0 - 1
\* an absent optional value, and a present one
None == <<>>
Some(x) == <<x>>
Optional(S) == {None} \cup {Some(x) : x \in S}

\* ticker symbols of the watchlist
Emitens == {"BBCA", "TLKM"}
\* sector names the company-info request returns
Sectors == {"Finance"}
\* the analysis columns other than the key, the sector and the status
\* (to_date, bandar ... target_max), as one value
DataVals == {1, 2}
Dates == 1..MaxDate

(***************************************************************************)
(* Message texts, as sequences of characters, so that String.includes is   *)
(* a search and not a label.                                               *)
(***************************************************************************)
\* "Market Detector API"
S_MarketDetectorAPI ==
    <<"M","a","r","k","e","t"," ","D","e","t","e","c","t","o","r"," ","A","P","I">>
\* "Orderbook API"
S_OrderbookAPI ==
    <<"O","r","d","e","r","b","o","o","k"," ","A","P","I">>
\* "Watchlist Detail API"
S_WatchlistDetailAPI ==
    <<"W","a","t","c","h","l","i","s","t"," ","D","e","t","a","i","l"," ","A","P","I">>
\* ": Token expired or invalid (401)"
S_TokenExpiredSuffix ==
    <<":"," ","T","o","k","e","n"," ","e","x","p","i","r","e","d"," ","o","r"," ","i","n","v","a","l","i","d"," ","(","4","0","1",")">>
\* " error: "
S_ErrorInfix ==
    <<" ","e","r","r","o","r",":"," ">>
\* " "
S_Space ==
    <<" ">>
\* "STOCKBIT_JWT_TOKEN not found in database or environment"
S_NoTokenFound ==
    <<"S","T","O","C","K","B","I","T","_","J","W","T","_","T","O","K","E","N"," ","n","o","t"," ","f","o","u","n","d"," ","i","n"," ","d","a","t","a","b","a","s","e"," ","o","r"," ","e","n","v","i","r","o","n","m","e","n","t">>
\* "No watchlist found"
S_NoWatchlistFound ==
    <<"N","o"," ","w","a","t","c","h","l","i","s","t"," ","f","o","u","n","d">>
\* "No broker data available"
S_NoBrokerDataAvailable ==
    <<"N","o"," ","b","r","o","k","e","r"," ","d","a","t","a"," ","a","v","a","i","l","a","b","l","e">>
\* "No broker data"
S_NoBrokerData ==
    <<"N","o"," ","b","r","o","k","e","r"," ","d","a","t","a">>
\* "Token authentication failed"
S_TokenAuthFailed ==
    <<"T","o","k","e","n"," ","a","u","t","h","e","n","t","i","c","a","t","i","o","n"," ","f","a","i","l","e","d">>
\* "Stockbit token expired or invalid. Please refresh your token."
S_TokenExpiredRefresh ==
    <<"S","t","o","c","k","b","i","t"," ","t","o","k","e","n"," ","e","x","p","i","r","e","d"," ","o","r"," ","i","n","v","a","l","i","d","."," ","P","l","e","a","s","e"," ","r","e","f","r","e","s","h"," ","y","o","u","r"," ","t","o","k","e","n",".">>
\* "Successfully analyzed"
S_SuccessfullyAnalyzed ==
    <<"S","u","c","c","e","s","s","f","u","l","l","y"," ","a","n","a","l","y","z","e","d">>
\* "401"
S_401 ==
    <<"4","0","1">>
\* "unauthorized"
S_unauthorized ==
    <<"u","n","a","u","t","h","o","r","i","z","e","d">>
\* "token"
S_token ==
    <<"t","o","k","e","n">>
\* "authentication"
S_authentication ==
    <<"a","u","t","h","e","n","t","i","c","a","t","i","o","n">>
\* "500"
S_500 ==
    <<"5","0","0">>
\* "403"
S_403 ==
    <<"4","0","3">>
\* "[object Object]"
S_ObjectObject ==
    <<"[","o","b","j","e","c","t"," ","O","b","j","e","c","t","]">>
\* "Unknown error"
S_UnknownError ==
    <<"U","n","k","n","o","w","n"," ","e","r","r","o","r">>
\* "Unauthorized"
S_Unauthorized ==
    <<"U","n","a","u","t","h","o","r","i","z","e","d">>
\* "Internal Server Error"
S_InternalServerError ==
    <<"I","n","t","e","r","n","a","l"," ","S","e","r","v","e","r"," ","E","r","r","o","r">>
\* "connection refused"
S_DbConnection ==
    <<"c","o","n","n","e","c","t","i","o","n"," ","r","e","f","u","s","e","d">>
\* "password authentication failed"
S_DbAuth ==
    <<"p","a","s","s","w","o","r","d"," ","a","u","t","h","e","n","t","i","c","a","t","i","o","n"," ","f","a","i","l","e","d">>
\* "invalid token"
S_DbToken ==
    <<"i","n","v","a","l","i","d"," ","t","o","k","e","n">>
\* " items failed"
S_ItemsFailed ==
    <<" ","i","t","e","m","s"," ","f","a","i","l","e","d">>
\* "No broker data found in data.broker_summary.brokers_buy"
S_NoBrokerDataFound ==
    <<"N","o"," ","b","r","o","k","e","r"," ","d","a","t","a"," ","f","o","u","n","d"," ","i","n"," ","d","a","t","a",".","b","r","o","k","e","r","_","s","u","m","m","a","r","y",".","b","r","o","k","e","r","s","_","b","u","y">>
\* "Cannot read properties of undefined"
S_TypeError ==
    <<"C","a","n","n","o","t"," ","r","e","a","d"," ","p","r","o","p","e","r","t","i","e","s"," ","o","f"," ","u","n","d","e","f","i","n","e","d">>

\* String.prototype.includes: sub occurs in s as a contiguous run
Includes(s, sub) ==
    \E k \in 1..(Len(s) - Len(sub) + 1) : SubSeq(s, k, k + Len(sub) - 1) = sub

\* new TokenExpiredError(`${apiName}: Token expired or invalid (401)`)
TokenExpiredMessage(apiName) == apiName \o S_TokenExpiredSuffix

\* new Error(`${apiName} error: ${response.status} ${response.statusText}`)
HttpErrorMessage(apiName, status, statusText) ==
    apiName \o S_ErrorInfix \o status \o S_Space \o statusText

\* the token test of the batch job's catch blocks
IsTokenError(errorMessage) ==
    \/ Includes(errorMessage, S_401)
    \/ Includes(errorMessage, S_unauthorized)
    \/ Includes(errorMessage, S_token)
    \/ Includes(errorMessage, S_authentication)

(***************************************************************************)
(* State.                                                                  *)
(***************************************************************************)
VARIABLES
    \* relational backend
    stock_queries,   \* rows of table stock_queries
    nextId,          \* next value of the table's id sequence
    job_logs,        \* rows of table background_job_logs, row k has id k
    \* one invocation of the batch handler
    pc,              \* the awaited call the handler is suspended at
    handler,         \* "background" (netlify function) or "route" (POST)
    today,           \* the analysis date taken when the run starts
    watchlistItems,  \* symbols of the fetched watchlist
    idx,             \* position of the loop in watchlistItems
    jobLogId,        \* id of the run's job log, 0 when there is none
    results,         \* symbols analysed successfully
    errors,          \* {emiten, error} of the symbols that failed
    errorMessage,    \* message of the error being handled
    item,            \* values computed for the symbol before its save
    prevId,          \* id found by updatePreviousDayRealPrice, 0 when none
    failedLogId,     \* id of the log the top-level catch creates, 0 when none
    response,        \* response of the finished invocation, None before
    \* environment
    date,            \* current calendar day
    runs,            \* handler invocations started
    queries,         \* interactive saves done
    \* history of the calls made, for the properties
    realWrites,      \* the writes of real_harga in order: row id, analysis date
    appendCalls,     \* append calls of the current run: emiten, level, stored
    lastSave,        \* the last save call that succeeded
    \* data-provider client (module state of lib/stockbit)
    cachedToken,     \* let cachedToken: string | null
    tokenLastFetched, \* let tokenLastFetched: number
    clock,           \* Date.now()
    session,         \* the row of table session with key 'stockbit_token'
    envToken,        \* process.env.STOCKBIT_JWT_TOKEN
    calls,           \* the data-provider call of each caller
    ncalls,          \* calls begun
    ticks,           \* steps of the clock taken
    \* history of the client, for the properties
    lastStoreFetch,  \* token and start time of the last call that fetched
                     \* from the store, none after a 401 was handled
    obtained,        \* token and start time of the last call that obtained
                     \* a token from the store or the environment
    got401,          \* a 401 was received and no getAuthToken call began since
    outcome,         \* how the last call that ended did end
    \* getTopBroker
    brokers_buy,     \* data.broker_summary.brokers_buy of the response
    brokerData,      \* what the current getTopBroker gave, none before
    brokerDataEarlier, \* what the earlier getTopBroker gave, none before
    \* the requests of the fan-outs
    requests,        \* provider requests issued by the loop: emiten, api, state
    \* the retry endpoint and the scheduled trigger
    retry,           \* the POST /api/job-retry being served
    trigger,         \* the invocation of the scheduled function being served
    pending,         \* POSTs delivered to the background function, not begun
    invoked,         \* what the background invocations begun came from
    prevRun,         \* what the run before the current one left, none before
    \* POST /api/stock
    stockCall,       \* the request being served
    \* the session store
    sessionOp        \* the last function of the session store that was called

storeVars == <<stock_queries, nextId, job_logs>>
jobVars == <<pc, handler, today, watchlistItems, idx, jobLogId, results,
             errors, errorMessage, item, prevId, failedLogId, response>>
envVars == <<date, runs, queries>>
histVars == <<realWrites, appendCalls, lastSave>>
batchVars == <<storeVars, jobVars, envVars, histVars>>
authVars == <<cachedToken, tokenLastFetched, clock, session, envToken, calls,
              ncalls, ticks, lastStoreFetch,
              obtained, got401, outcome>>
brokerVars == <<brokers_buy, brokerData, brokerDataEarlier>>
extVars == <<requests, retry, trigger, pending, invoked, prevRun, stockCall,
             sessionOp>>

(***************************************************************************)
(* Table stock_queries.                                                    *)
(***************************************************************************)
\* a row with the column defaults of an insert
StockRow(from_date, emiten, sector, data, status) ==
    [id |-> 0, from_date |-> from_date, emiten |-> emiten, sector |-> sector,
     data |-> data, status |-> status,
     real_harga |-> NULLNUM, max_harga |-> NULLNUM]

\* an upsert that deletes the row of the key and inserts the new one
UpsertReplace(table, id, row, cols) ==
    LET hit == {r \in table : r.from_date = row.from_date /\ r.emiten = row.emiten}
    IN  (table \ hit) \cup {[row EXCEPT !.id = id]}

\* .upsert([row], { onConflict: 'from_date,emiten' }): INSERT ... ON CONFLICT
\* (from_date, emiten) DO UPDATE SET the supplied columns
Upsert(table, id, row, cols) ==
    LET hit == {r \in table : r.from_date = row.from_date /\ r.emiten = row.emiten}
    IN  IF hit = {}
        THEN table \cup {[row EXCEPT !.id = id]}
        ELSE (table \ hit) \cup
             {[c \in DOMAIN r |-> IF c \in cols THEN row[c] ELSE r[c]] : r \in hit}

\* a plain insert, with no conflict target
SaveAsInsert(table, id, d) ==
    table \cup {[StockRow(d.from_date, d.emiten, d.sector, d.data, d.status)
                    EXCEPT !.id = id]}

\* saveWatchlistAnalysis(data): data.sector is omitted from the request when
\* undefined, data.status is always given
saveWatchlistAnalysis(table, id, d) ==
    Upsert(table, id,
           StockRow(d.from_date, d.emiten,
                    IF d.sector = UNDEFINED THEN NULL ELSE d.sector,
                    d.data, d.status),
           {"from_date", "emiten", "data", "status"}
               \cup (IF d.sector = UNDEFINED THEN {} ELSE {"sector"}))

\* saveStockQuery(data): the route gives neither sector nor status; d.status
\* is the column default an inserted row gets
saveStockQuery(table, id, d) ==
    Upsert(table, id,
           StockRow(d.from_date, d.emiten, NULL, d.data, d.status),
           {"from_date", "emiten", "data"})

\* lookup of updatePreviousDayRealPrice with .lte instead of .lt
FindPreviousInclusive(table, emiten, currentDate) ==
    LET c == {r \in table : /\ r.emiten = emiten
                            /\ r.status = "success"
                            /\ r.from_date <= currentDate}
    IN  IF c = {} THEN 0
        ELSE (CHOOSE r \in c : \A q \in c : q.from_date <= r.from_date).id

\* step 1 of updatePreviousDayRealPrice: .eq('emiten').eq('status','success')
\* .lt('from_date', currentDate).order('from_date', desc).limit(1).single();
\* 0 stands for "no rows" (PGRST116)
FindPrevious(table, emiten, currentDate) ==
    LET c == {r \in table : /\ r.emiten = emiten
                            /\ r.status = "success"
                            /\ r.from_date < currentDate}
    IN  IF c = {} THEN 0
        ELSE (CHOOSE r \in c : \A q \in c : q.from_date <= r.from_date).id

\* the update of every row of the emiten instead of the row found
UpdateRealPriceAll(table, id, price, maxPrice) ==
    LET e == {r.emiten : r \in {q \in table : q.id = id}}
    IN  {IF r.emiten \in e
         THEN [r EXCEPT !.real_harga = price,
                        !.max_harga = IF maxPrice = None THEN @ ELSE maxPrice[1]]
         ELSE r : r \in table}

\* step 2 of updatePreviousDayRealPrice: .update(updateData).eq('id', id),
\* max_harga only when maxPrice is given
UpdateRealPrice(table, id, price, maxPrice) ==
    {IF r.id = id
     THEN [r EXCEPT !.real_harga = price,
                    !.max_harga = IF maxPrice = None THEN @ ELSE maxPrice[1]]
     ELSE r : r \in table}

(***************************************************************************)
(* Table background_job_logs.                                              *)
(***************************************************************************)
\* createBackgroundJobLog(jobName, totalItems): insert with status 'running'
createBackgroundJobLog(logs, totalItems) ==
    Append(logs, [status |-> "running", total_items |-> totalItems,
                  log_entries |-> <<>>, success_count |-> NULLNUM,
                  error_count |-> NULLNUM, error_message |-> None,
                  isTokenError |-> None, completed |-> FALSE])

\* the row update of appendBackgroundJobLogEntry; how is what the store did:
\*   "rpc"          append_job_log_entry appended the entry
\*   "fallback"     PGRST202, then select and update both succeeded
\*   "noselect"     PGRST202, the select gave no row: entries = [] + entry
\*   "noupdate"     PGRST202, the update failed
\*   "error"        any other rpc error, only logged
appendBackgroundJobLogEntry(logs, jobId, entry, how) ==
    CASE how = "rpc" ->
            [logs EXCEPT ![jobId].log_entries = Append(@, entry)]
      [] how = "fallback" ->
            [logs EXCEPT ![jobId].log_entries = Append(@, entry)]
      [] how = "noselect" ->
            [logs EXCEPT ![jobId].log_entries = <<entry>>]
      [] OTHER -> logs
AppendOutcomes == {"rpc", "fallback", "noselect", "noupdate", "error"}

\* updateBackgroundJobLog(jobId, data): sets the fields of data and
\* completed_at
updateBackgroundJobLog(logs, jobId, data) ==
    LET old == logs[jobId]
    IN  [logs EXCEPT ![jobId] =
            [f \in DOMAIN old |->
                IF f = "completed" THEN TRUE
                ELSE IF f \in DOMAIN data THEN data[f] ELSE old[f]]]

(***************************************************************************)
(* getTopBroker: the current data-provider module and the earlier variant. *)
(***************************************************************************)
\* decimal digits, digit d at position d + 1
Digits == <<"0", "1", "2", "3", "4", "5", "6", "7", "8", "9">>

DigitValue(c) == CHOOSE d \in 0..9 : Digits[d + 1] = c

\* the value of a run of digits
RECURSIVE IntegerOf(_)
IntegerOf(s) ==
    IF s = <<>> THEN 0
    ELSE IntegerOf(SubSeq(s, 1, Len(s) - 1)) * 10 + DigitValue(s[Len(s)])

\* Number(text) of a decimal numeral with at most one fractional digit, in
\* tenths
NumberOf(s) ==
    IF \E k \in DOMAIN s : s[k] = "."
    THEN LET k == CHOOSE i \in DOMAIN s : s[i] = "."
         IN  IntegerOf(SubSeq(s, 1, k - 1)) * 10 + IntegerOf(SubSeq(s, k + 1, Len(s)))
    ELSE IntegerOf(s) * 10

\* Math.round of a number given in tenths: floor(x + 0.5)
MathRound(tenths) == (tenths + 5) \div 10

\* an element of brokers_buy
BrokerBuyItem(code, bval, blot, price) ==
    [netbs_broker_code |-> code, bval |-> bval, blot |-> blot,
     netbs_buy_avg_price |-> price]

\* Array.prototype.sort((a, b) => Number(b.bval) - Number(a.bval)): stable,
\* descending by bval
InsertByBval(x, sorted) ==
    LET keep == {k \in DOMAIN sorted : NumberOf(sorted[k].bval) >= NumberOf(x.bval)}
        n == Cardinality(keep)
    IN  SubSeq(sorted, 1, n) \o <<x>> \o SubSeq(sorted, n + 1, Len(sorted))

RECURSIVE SortByBvalDesc(_)
SortByBvalDesc(items) ==
    IF items = <<>> THEN <<>>
    ELSE InsertByBval(items[Len(items)],
                      SortByBvalDesc(SubSeq(items, 1, Len(items) - 1)))

\* what a call of getTopBroker gives: null, a BrokerData, or an error
BrokerNull ==
    [kind |-> "null", bandar |-> NULL, barangBandar |-> NULLNUM,
     rataRataBandar |-> NULLNUM, message |-> <<>>]
BrokerThrow(message) ==
    [kind |-> "throw", bandar |-> NULL, barangBandar |-> NULLNUM,
     rataRataBandar |-> NULLNUM, message |-> message]
BrokerData(topBroker) ==
    [kind |-> "value", bandar |-> topBroker.netbs_broker_code,
     barangBandar |-> MathRound(NumberOf(topBroker.blot)),
     rataRataBandar |-> MathRound(NumberOf(topBroker.netbs_buy_avg_price)),
     message |-> <<>>]

\* a getTopBroker that tests only !brokers: reading a property of the
\* undefined first element is a TypeError
GetTopBrokerNoLengthTest(brokers) ==
    IF brokers.kind \in {"undefined", "null"} THEN BrokerNull
    ELSE IF brokers.items = <<>> THEN BrokerThrow(S_TypeError)
    ELSE BrokerData(SortByBvalDesc(brokers.items)[1])

\* getTopBroker of lib/stockbit (current): null without broker data
getTopBroker(brokers) ==
    IF \/ brokers.kind \in {"undefined", "null"}
       \/ brokers.kind # "array"
       \/ Len(brokers.items) = 0
    THEN BrokerNull
    ELSE LET topBroker == SortByBvalDesc(brokers.items)[1]
         IN  BrokerData(topBroker)

\* getTopBroker of the earlier variant: an Error without broker data
getTopBrokerEarlier(brokers) ==
    IF \/ brokers.kind \in {"undefined", "null"}
       \/ brokers.kind # "array"
       \/ Len(brokers.items) = 0
    THEN BrokerThrow(S_NoBrokerDataFound)
    ELSE LET topBroker == SortByBvalDesc(brokers.items)[1]
         IN  BrokerData(topBroker)

\* values of data.broker_summary.brokers_buy: missing, null, an object that
\* is no array, and arrays of up to MaxBrokers elements
BrokerCodes == {"AK", "BK"}
Bvals == {<<"9", ".", "5">>, <<"1", "0">>}
Blots == {<<"1", "4", ".", "5">>}
AvgPrices == {<<"2", "4", ".", "4">>, <<"2", "4", ".", "5">>}
BrokerItems ==
    {BrokerBuyItem(c, v, l, a) : c \in BrokerCodes, v \in Bvals, l \in Blots,
                                 a \in AvgPrices}
BrokersBuyValues ==
    {[kind |-> k, items |-> <<>>] : k \in {"undefined", "null", "object", "array"}}
        \cup {[kind |-> "array", items |-> s] :
                 s \in UNION {[1..n -> BrokerItems] : n \in 1..MaxBrokers}}

\* the current module is called on the response
CallGetTopBroker ==
    /\ brokerData = None
    /\ brokerData' = Some(getTopBroker(brokers_buy))
    /\ UNCHANGED <<brokers_buy, brokerDataEarlier>>
    /\ UNCHANGED <<batchVars, authVars, extVars>>

\* the earlier variant is called on the response
CallGetTopBrokerEarlier ==
    /\ brokerDataEarlier = None
    /\ brokerDataEarlier' = Some(getTopBrokerEarlier(brokers_buy))
    /\ UNCHANGED <<brokers_buy, brokerData>>
    /\ UNCHANGED <<batchVars, authVars, extVars>>

\* no call of getTopBroker
BrokerIdle ==
    /\ brokers_buy = [kind |-> "undefined", items |-> <<>>]
    /\ brokerData = None
    /\ brokerDataEarlier = None

(***************************************************************************)
(* Inputs of the batch job.                                                *)
(***************************************************************************)
\* watchlists the provider returns (data.result), symbols distinct
Watchlists == {<<>>, <<"BBCA">>, <<"BBCA", "TLKM">>}

\* data.broker_summary.brokers_buy of the market-detector responses the
\* batch gets: missing, an empty array, the buys of one broker
NoBrokersBuy == [kind |-> "undefined", items |-> <<>>]
EmptyBrokersBuy == [kind |-> "array", items |-> <<>>]
OneBrokerBuy ==
    [kind |-> "array",
     items |-> <<BrokerBuyItem("AK", <<"1", "0">>, <<"1", "4", ".", "5">>,
                               <<"2", "4", ".", "5">>)>>]
MarketDetectorResponses == {NoBrokersBuy, EmptyBrokersBuy, OneBrokerBuy}
\* the market-detector request of the fan-out gave no response
NoResponse == [kind |-> "none", items |-> <<>>]

\* a rejected request of the fan-out: a 401 of the market detector, a 500
\* of the order book
FanOutErrors ==
    {TokenExpiredMessage(S_MarketDetectorAPI),
     HttpErrorMessage(S_OrderbookAPI, S_500, S_InternalServerError)}

\* what fetchWatchlist throws
WatchlistErrors ==
    {TokenExpiredMessage(S_WatchlistDetailAPI),
     HttpErrorMessage(S_WatchlistDetailAPI, S_403, S_unauthorized),
     S_NoTokenFound,
     S_NoWatchlistFound}

\* what a failed store call throws: the store's error object, an Error or not
ThrownDbErrors ==
    {[instanceOfError |-> TRUE, message |-> S_DbAuth],
     [instanceOfError |-> TRUE, message |-> S_DbToken],
     [instanceOfError |-> FALSE, message |-> S_DbConnection]}

\* error instanceof Error ? error.message : String(error)   (background)
\* error instanceof Error ? error.message : 'Unknown error' (route)
ErrorMessageOf(h, err) ==
    IF err.instanceOfError THEN err.message
    ELSE IF h = "background" THEN S_ObjectObject ELSE S_UnknownError

Response(status, success, analyzed, nerrors, logId, error, isTokenError) ==
    [status |-> status, success |-> success, analyzed |-> analyzed,
     errors |-> nerrors, jobLogId |-> logId, error |-> error,
     isTokenError |-> isTokenError]

\* the message logged and stored for a top-level error
TopLevelMessage(msg) ==
    IF IsTokenError(msg) THEN S_TokenExpiredRefresh ELSE msg

(***************************************************************************)
(* The batch job: the background function and the route handler.  Each     *)
(* action is the handler's code from the completion of one awaited call to *)
(* the start of the next; pc names the call the handler is suspended at.   *)
(***************************************************************************)
Emiten == watchlistItems[idx]

\* the 200 response after the loop
OkResponse(res, errs) ==
    Response(200, TRUE, Len(res), Len(errs), jobLogId, None, None)

\* the loop moves to the next symbol; after the last one the background job
\* updates its job log, if it has one, and otherwise the handler responds
NextItemOrFinish(res, errs) ==
    /\ idx' = idx + 1
    /\ item' = None
    /\ prevId' = 0
    /\ errorMessage' = <<>>
    /\ IF idx < Len(watchlistItems)
       THEN pc' = "fanout" /\ response' = response
       ELSE IF handler = "background" /\ jobLogId # 0
            THEN pc' = "final" /\ response' = response
            ELSE pc' = "done" /\ response' = OkResponse(res, errs)

\* the top-level catch block
CatchTop(msg) ==
    /\ errorMessage' = msg
    /\ item' = None
    /\ prevId' = 0
    /\ IF handler = "route"
       THEN /\ pc' = "done"
            /\ response' = Response(500, FALSE, NULLNUM, NULLNUM, 0, Some(msg), None)
       ELSE /\ pc' = IF jobLogId # 0 THEN "topAppend" ELSE "topCreate"
            /\ response' = response

\* a per-symbol catch block that rethrows: the error reaches the top-level
\* catch and the loop stops
CatchItemRethrow(msg) ==
    /\ CatchTop(msg)
    /\ UNCHANGED <<errors, idx>>

\* the per-symbol catch block
CatchItem(msg) ==
    /\ errors' = Append(errors, [emiten |-> Emiten, error |-> msg])
    /\ IF handler = "background" /\ jobLogId # 0
       THEN /\ pc' = "appendErr"
            /\ errorMessage' = msg
            /\ UNCHANGED <<idx, response, item, prevId>>
       ELSE NextItemOrFinish(results, errors')

\* variant: the analysed symbol is logged but not pushed to results
PushResultUncounted ==
    /\ results' = results
    /\ IF handler = "background" /\ jobLogId # 0
       THEN /\ pc' = "appendInfo"
            /\ UNCHANGED <<idx, response, item, prevId, errorMessage>>
       ELSE NextItemOrFinish(results', errors)

\* results.push after the best-effort backfill
PushResult ==
    /\ results' = Append(results, [emiten |-> Emiten, status |-> "success"])
    /\ IF handler = "background" /\ jobLogId # 0
       THEN /\ pc' = "appendInfo"
            /\ UNCHANGED <<idx, response, item, prevId, errorMessage>>
       ELSE NextItemOrFinish(results', errors)

\* the 500 response of the background job's top-level catch
FailResponse ==
    Response(500, FALSE, NULLNUM, NULLNUM, 0, Some(errorMessage),
             Some(IsTokenError(errorMessage)))

\* what the properties remember of a save: its arguments, and whether a row
\* of the same key with other values was there
SaveRecord(kind, d, table) ==
    [kind |-> kind, from_date |-> d.from_date, emiten |-> d.emiten,
     sector |-> d.sector, data |-> d.data,
     existed |-> \E r \in table : /\ r.from_date = d.from_date
                                  /\ r.emiten = d.emiten
                                  /\ r.data # d.data]

\* the handler begins an invocation: the background function, or the route
\* on a POST with or without the CRON_SECRET bearer
Invoke(handlers, maxRuns) ==
    /\ pc \in {"idle", "done", "rejected"}
    /\ runs < maxRuns
    /\ runs' = runs + 1
    /\ today' = date
    /\ jobLogId' = 0
    /\ results' = <<>>
    /\ errors' = <<>>
    /\ appendCalls' = <<>>
    /\ watchlistItems' = <<>>
    /\ idx' = 0
    /\ prevId' = 0
    /\ errorMessage' = <<>>
    /\ item' = None
    /\ \E h \in handlers :
          /\ handler' = h
          /\ \/ pc' = "fetchWatchlist" /\ response' = None
             \/ /\ h = "route"
                /\ pc' = "done"
                /\ response' = Response(401, FALSE, NULLNUM, NULLNUM, 0,
                                        Some(S_Unauthorized), None)
    /\ failedLogId' = 0
    /\ UNCHANGED <<storeVars, date, queries, realWrites, lastSave>>
    /\ UNCHANGED <<authVars, brokerVars>>

\* the handler is invoked, with nothing said of what invoked it
Start(handlers, maxRuns) ==
    /\ Invoke(handlers, maxRuns)
    /\ UNCHANGED extVars

\* the handler is invoked again, on the store the run before left; the run
\* before is complete when it saved its symbol and the prior record of the
\* symbol, if there is one, has its realized price
Rerun(handlers, maxRuns) ==
    /\ Invoke(handlers, maxRuns)
    /\ prevRun' =
          IF runs = 0 THEN None
          ELSE Some([store |-> stock_queries,
                     save |-> lastSave,
                     complete |->
                        /\ results # <<>>
                        /\ LET id == FindPrevious(stock_queries, results[1].emiten, today)
                           IN  \A r \in stock_queries :
                                  r.id = id => r.real_harga # NULLNUM])
    /\ UNCHANGED <<requests, retry, trigger, pending, invoked, stockCall, sessionOp>>

\* await fetchWatchlist()
FetchWatchlist(lists, errs) ==
    /\ pc = "fetchWatchlist"
    /\ \/ \E msg \in errs :
             /\ CatchTop(msg)
             /\ UNCHANGED <<watchlistItems, idx>>
       \/ \E w \in lists :
             /\ watchlistItems' = w
             /\ UNCHANGED <<errorMessage, item, prevId>>
             /\ IF Len(w) = 0
                THEN /\ pc' = "done"
                     /\ idx' = idx
                     /\ response' = Response(200, TRUE, NULLNUM, NULLNUM, 0, None, None)
                ELSE /\ pc' = IF handler = "background" THEN "createLog" ELSE "fanout"
                     /\ idx' = 1
                     /\ response' = response
    /\ UNCHANGED <<storeVars, envVars, histVars, handler, today, jobLogId,
                   results, errors, failedLogId>>
    /\ UNCHANGED <<authVars, brokerVars, extVars>>

\* variant: a failed creation of the job log reaches the top-level catch
CreateJobLogRethrows ==
    /\ pc = "createLog"
    /\ \/ /\ job_logs' = createBackgroundJobLog(job_logs, Len(watchlistItems))
          /\ jobLogId' = Len(job_logs')
          /\ pc' = "fanout"
          /\ UNCHANGED <<errorMessage, item, prevId, response>>
       \/ /\ CatchTop(S_DbConnection)
          /\ UNCHANGED <<job_logs, jobLogId>>
    /\ UNCHANGED <<stock_queries, nextId, envVars, histVars, handler, today,
                   watchlistItems, idx, results, errors, failedLogId>>
    /\ UNCHANGED <<authVars, brokerVars, extVars>>

\* await createBackgroundJobLog('analyze-watchlist', watchlistItems.length)
CreateJobLog ==
    /\ pc = "createLog"
    /\ \/ /\ job_logs' = createBackgroundJobLog(job_logs, Len(watchlistItems))
          /\ jobLogId' = Len(job_logs')
       \/ UNCHANGED <<job_logs, jobLogId>>
    /\ pc' = "fanout"
    /\ UNCHANGED <<stock_queries, nextId, envVars, histVars, handler, today,
                   watchlistItems, idx, results, errors, errorMessage, item,
                   prevId, response, failedLogId>>
    /\ UNCHANGED <<authVars, brokerVars, extVars>>

\* a request of the fan-out rejected: the per-symbol catch block
FanOutRejected(msg) ==
    /\ CatchItem(msg)
    /\ UNCHANGED results

\* variant: the missing dataset is thrown and caught like a failed request
FanOutNoBrokerThrows ==
    FanOutRejected(S_NoBrokerDataFound)

\* getTopBroker gave null: the symbol goes to the error list, the background
\* job logs a warning, and the loop continues
FanOutNoBroker ==
    /\ errors' = Append(errors,
          [emiten |-> Emiten,
           error |-> IF handler = "background"
                     THEN S_NoBrokerDataAvailable ELSE S_NoBrokerData])
    /\ IF handler = "background" /\ jobLogId # 0
       THEN /\ pc' = "appendWarn"
            /\ UNCHANGED <<idx, response, item, prevId, errorMessage>>
       ELSE NextItemOrFinish(results, errors')
    /\ UNCHANGED results

\* getTopBroker gave a broker: the market data and calculateTargets give the
\* record to save
FanOutAnalysed(d, s) ==
    /\ item' = Some([from_date |-> today, emiten |-> Emiten,
                     sector |-> s, data |-> d, status |-> "success"])
    /\ pc' = "save"
    /\ UNCHANGED <<results, errors, errorMessage, idx, response, prevId>>

\* await Promise.all([fetchMarketDetector, fetchOrderbook, fetchEmitenInfo
\* .catch(() => null)]), getTopBroker and calculateTargets
FanOut(errs, responses, datas, sectors) ==
    /\ pc = "fanout"
    /\ \/ \E msg \in errs :
             /\ FanOutRejected(msg)
             /\ brokers_buy' = NoResponse
       \/ \E b \in responses :
             /\ brokers_buy' = b
             /\ IF getTopBroker(b) = BrokerNull
                THEN FanOutNoBroker
                ELSE \E d \in datas, s \in sectors : FanOutAnalysed(d, s)
    /\ UNCHANGED <<storeVars, envVars, histVars, handler, today,
                   watchlistItems, jobLogId, failedLogId>>
    /\ UNCHANGED <<authVars, brokerData, brokerDataEarlier, extVars>>

\* the provider requests of one fan-out
Apis == {"marketDetector", "orderbook", "emitenInfo"}
Request(emiten, api, state) == [emiten |-> emiten, api |-> api, state |-> state]

\* what a rejected request of the fan-out throws
RejectionOf(api) ==
    IF api = "marketDetector" THEN TokenExpiredMessage(S_MarketDetectorAPI)
    ELSE HttpErrorMessage(S_OrderbookAPI, S_500, S_InternalServerError)

\* the requests of every symbol of the watchlist issued at once
IssueAllRequests ==
    /\ pc = "fanout"
    /\ ~(\E r \in requests : r.emiten = Emiten)
    /\ requests' = requests \cup
          {Request(watchlistItems[k], a, "pending") :
              k \in idx..Len(watchlistItems), a \in Apis}
    /\ UNCHANGED <<batchVars, authVars, brokerVars>>
    /\ UNCHANGED <<retry, trigger, pending, invoked, prevRun, stockCall, sessionOp>>

\* Promise.all([...]) calls the three fetch functions of the symbol: its
\* requests are issued; fetchEmitenInfo answers from its sector cache when
\* it can
IssueRequests ==
    /\ pc = "fanout"
    /\ ~(\E r \in requests : r.emiten = Emiten)
    /\ \E info \in {"pending", "fulfilled"} :
          requests' = requests \cup
              {Request(Emiten, "marketDetector", "pending"),
               Request(Emiten, "orderbook", "pending"),
               Request(Emiten, "emitenInfo", info)}
    /\ UNCHANGED <<batchVars, authVars, brokerVars>>
    /\ UNCHANGED <<retry, trigger, pending, invoked, prevRun, stockCall, sessionOp>>

\* variant: fetchEmitenInfo without .catch(() => null), so that its
\* rejection rejects Promise.all like the others
SettleRequestInfoFails ==
    /\ \E r \in requests :
          /\ r.state = "pending"
          /\ \/ /\ requests' = (requests \ {r}) \cup {[r EXCEPT !.state = "fulfilled"]}
                /\ UNCHANGED <<jobVars, brokers_buy>>
             \/ /\ requests' = (requests \ {r}) \cup {[r EXCEPT !.state = "rejected"]}
                /\ IF pc = "fanout" /\ r.emiten = Emiten
                   THEN /\ FanOutRejected(RejectionOf(r.api))
                        /\ brokers_buy' = NoResponse
                   ELSE UNCHANGED <<jobVars, brokers_buy>>
    /\ UNCHANGED <<storeVars, envVars, histVars, handler, today,
                   watchlistItems, jobLogId, failedLogId>>
    /\ UNCHANGED <<authVars, brokerData, brokerDataEarlier>>
    /\ UNCHANGED <<retry, trigger, pending, invoked, prevRun, stockCall, sessionOp>>

\* a request settles.  The first rejection of the market detector or the
\* order book of the symbol the loop awaits rejects Promise.all at once, the
\* other requests still in flight; a rejection of fetchEmitenInfo is caught
\* and gives null; a request left behind by a rejected fan-out settles
\* unobserved
SettleRequest ==
    /\ \E r \in requests :
          /\ r.state = "pending"
          /\ \/ /\ requests' = (requests \ {r}) \cup {[r EXCEPT !.state = "fulfilled"]}
                /\ UNCHANGED <<jobVars, brokers_buy>>
             \/ /\ requests' = (requests \ {r}) \cup {[r EXCEPT !.state = "rejected"]}
                /\ IF pc = "fanout" /\ r.emiten = Emiten /\ r.api # "emitenInfo"
                   THEN /\ FanOutRejected(RejectionOf(r.api))
                        /\ brokers_buy' = NoResponse
                   ELSE UNCHANGED <<jobVars, brokers_buy>>
    /\ UNCHANGED <<storeVars, envVars, histVars, handler, today,
                   watchlistItems, jobLogId, failedLogId>>
    /\ UNCHANGED <<authVars, brokerData, brokerDataEarlier>>
    /\ UNCHANGED <<retry, trigger, pending, invoked, prevRun, stockCall, sessionOp>>

\* the requests of the symbol have all settled, none with a rejection that
\* rejects Promise.all
AllSettled(e) ==
    /\ Request(e, "marketDetector", "fulfilled") \in requests
    /\ Request(e, "orderbook", "fulfilled") \in requests
    /\ \/ Request(e, "emitenInfo", "fulfilled") \in requests
       \/ Request(e, "emitenInfo", "rejected") \in requests

\* Promise.all fulfils: getTopBroker and calculateTargets; the sector is
\* undefined when fetchEmitenInfo gave null
FanOutFulfilled(responses, datas, sectors) ==
    /\ pc = "fanout"
    /\ AllSettled(Emiten)
    /\ \E b \in responses :
          /\ brokers_buy' = b
          /\ IF getTopBroker(b) = BrokerNull
             THEN FanOutNoBroker
             ELSE \E d \in datas,
                     s \in IF Request(Emiten, "emitenInfo", "rejected") \in requests
                           THEN {UNDEFINED} ELSE sectors :
                     FanOutAnalysed(d, s)
    /\ UNCHANGED <<storeVars, envVars, histVars, handler, today,
                   watchlistItems, jobLogId, failedLogId>>
    /\ UNCHANGED <<authVars, brokerData, brokerDataEarlier, extVars>>

\* await saveWatchlistAnalysis({...})
SaveAnalysis(dbErrs) ==
    /\ pc = "save"
    /\ \/ /\ stock_queries' = saveWatchlistAnalysis(stock_queries, nextId, item[1])
          /\ nextId' = IF Cardinality(stock_queries') > Cardinality(stock_queries)
                       THEN nextId + 1 ELSE nextId
          /\ lastSave' = Some(SaveRecord("saveWatchlistAnalysis", item[1], stock_queries))
          /\ pc' = "hist"
          /\ UNCHANGED <<results, errors, errorMessage, idx, response, item, prevId>>
       \/ \E err \in dbErrs :
             /\ CatchItem(ErrorMessageOf(handler, err))
             /\ UNCHANGED <<stock_queries, nextId, lastSave, results>>
    /\ UNCHANGED <<job_logs, envVars, realWrites, appendCalls, handler, today,
                   watchlistItems, jobLogId, failedLogId>>
    /\ UNCHANGED <<authVars, brokerVars, extVars>>

\* the historical-summary fetch without the inner try: its failure reaches
\* the per-symbol catch block
FetchHistoryUnguarded(closes, highs) ==
    /\ pc = "hist"
    /\ \/ /\ CatchItem(S_NoTokenFound)
          /\ UNCHANGED results
       \/ \E close \in closes, high \in highs :
             /\ item' = Some(item[1] @@ [close |-> close, high |-> high])
             /\ pc' = "findPrev"
             /\ UNCHANGED <<results, errors, idx, response, errorMessage, prevId>>
    /\ UNCHANGED <<storeVars, envVars, histVars, handler, today,
                   watchlistItems, jobLogId, failedLogId>>
    /\ UNCHANGED <<authVars, brokerVars, extVars>>

\* await fetchHistoricalSummary(emiten, sevenDaysAgo, today, 5); a failure
\* is caught by the inner try, an empty list skips the update
FetchHistory(closes, highs) ==
    /\ pc = "hist"
    /\ \/ PushResult
       \/ \E close \in closes, high \in highs :
             /\ item' = Some(item[1] @@ [close |-> close, high |-> high])
             /\ pc' = "findPrev"
             /\ UNCHANGED <<results, idx, response, errorMessage, prevId>>
    /\ UNCHANGED <<storeVars, envVars, histVars, handler, today,
                   watchlistItems, jobLogId, errors, failedLogId>>
    /\ UNCHANGED <<authVars, brokerVars, extVars>>

\* updatePreviousDayRealPrice, step 1: the lookup; a store error or no row
\* returns null
FindPreviousRecord ==
    /\ pc = "findPrev"
    /\ \/ PushResult
       \/ /\ FindPrevious(stock_queries, Emiten, today) # 0
          /\ prevId' = FindPrevious(stock_queries, Emiten, today)
          /\ pc' = "updPrev"
          /\ UNCHANGED <<results, idx, response, errorMessage, item>>
       \/ /\ FindPrevious(stock_queries, Emiten, today) = 0
          /\ PushResult
    /\ UNCHANGED <<storeVars, envVars, histVars, handler, today,
                   watchlistItems, jobLogId, errors, failedLogId>>
    /\ UNCHANGED <<authVars, brokerVars, extVars>>

\* updatePreviousDayRealPrice, step 2: the update; a store error is logged
UpdatePreviousRecord ==
    /\ pc = "updPrev"
    /\ \/ /\ stock_queries' = UpdateRealPrice(stock_queries, prevId,
                                              item[1].close, item[1].high)
          /\ realWrites' = Append(realWrites, [id |-> prevId, today |-> today])
       \/ UNCHANGED <<stock_queries, realWrites>>
    /\ PushResult
    /\ UNCHANGED <<nextId, job_logs, envVars, appendCalls, lastSave, handler,
                   today, watchlistItems, jobLogId, errors, failedLogId>>
    /\ UNCHANGED <<authVars, brokerVars, extVars>>

\* the log entry of a symbol without broker data
WarnEntry(emiten) ==
    [level |-> "warn", message |-> S_NoBrokerDataAvailable, emiten |-> emiten,
     details |-> None]

\* the log entry of an analysed symbol
InfoEntry(emiten, d) ==
    [level |-> "info", message |-> S_SuccessfullyAnalyzed, emiten |-> emiten,
     details |-> Some([harga |-> d, targetRealistis |-> d])]

\* the log entry of a failed symbol
ErrorEntry(emiten, msg) ==
    [level |-> "error",
     message |-> IF IsTokenError(msg) THEN S_TokenAuthFailed ELSE msg,
     emiten |-> emiten,
     details |-> Some([isTokenError |-> IsTokenError(msg), originalError |-> msg])]

\* the log entry of the top-level catch
CriticalEntry(msg) ==
    [level |-> "error", message |-> TopLevelMessage(msg), emiten |-> NULL,
     details |-> Some([isTokenError |-> IsTokenError(msg), error |-> msg])]

\* await appendBackgroundJobLogEntry(jobLogId, entry) inside the loop
AppendItemEntry(at, entry) ==
    /\ pc = at
    /\ \E how \in AppendOutcomes :
          /\ job_logs' = appendBackgroundJobLogEntry(job_logs, jobLogId, entry, how)
          /\ appendCalls' = Append(appendCalls,
                [emiten |-> entry.emiten, level |-> entry.level,
                 stored |-> how \in {"rpc", "fallback", "noselect"}])
    /\ NextItemOrFinish(results, errors)
    /\ UNCHANGED <<stock_queries, nextId, envVars, realWrites, lastSave,
                   handler, today, watchlistItems, jobLogId, results, errors,
                   failedLogId>>
    /\ UNCHANGED <<authVars, brokerVars, extVars>>

AppendWarn == AppendItemEntry("appendWarn", WarnEntry(Emiten))

AppendInfo == AppendItemEntry("appendInfo", InfoEntry(Emiten, item[1].data))

AppendError == AppendItemEntry("appendErr", ErrorEntry(Emiten, errorMessage))

\* String(n) of a count
RECURSIVE NumberText(_)
NumberText(n) ==
    LET digit == <<"0", "1", "2", "3", "4", "5", "6", "7", "8", "9">>
    IN  IF n < 10 THEN <<digit[n + 1]>>
        ELSE NumberText(n \div 10) \o <<digit[(n % 10) + 1]>>

\* variant: the status is 'failed' as soon as one symbol failed
FinalUpdateAnyError(res, errs) ==
    LET st == IF Len(errs) > 0 THEN "failed" ELSE "completed"
    IN  IF Len(errs) > 0
        THEN [status |-> st, success_count |-> Len(res), error_count |-> Len(errs),
              error_message |-> Some(NumberText(Len(errs)) \o S_ItemsFailed)]
        ELSE [status |-> st, success_count |-> Len(res), error_count |-> Len(errs)]

\* the fields of the final update; error_message is undefined, and so not
\* sent, when no symbol failed
FinalUpdate(res, errs) ==
    LET st == IF Len(errs) > 0 /\ Len(res) = 0 THEN "failed" ELSE "completed"
    IN  IF Len(errs) > 0
        THEN [status |-> st, success_count |-> Len(res), error_count |-> Len(errs),
              error_message |-> Some(NumberText(Len(errs)) \o S_ItemsFailed)]
        ELSE [status |-> st, success_count |-> Len(res), error_count |-> Len(errs)]

\* the fields of the update of the top-level catch
FailedUpdate(msg) ==
    [status |-> "failed", error_message |-> Some(TopLevelMessage(msg)),
     isTokenError |-> Some(IsTokenError(msg))]

\* await updateBackgroundJobLog(jobLogId, {...}) after the loop
FinalStatusUpdate(dbErrs) ==
    /\ pc = "final"
    /\ \/ /\ job_logs' = updateBackgroundJobLog(job_logs, jobLogId,
                                                FinalUpdate(results, errors))
          /\ response' = OkResponse(results, errors)
          /\ pc' = "done"
          /\ UNCHANGED <<errorMessage, item, prevId>>
       \/ \E err \in dbErrs :
             /\ CatchTop(ErrorMessageOf(handler, err))
             /\ UNCHANGED job_logs
    /\ UNCHANGED <<stock_queries, nextId, envVars, histVars, handler, today,
                   watchlistItems, idx, jobLogId, results, errors, failedLogId>>
    /\ UNCHANGED <<authVars, brokerVars, extVars>>

\* top-level catch with a job log: await appendBackgroundJobLogEntry
TopAppend ==
    /\ pc = "topAppend"
    /\ \E how \in AppendOutcomes :
          /\ job_logs' = appendBackgroundJobLogEntry(job_logs, jobLogId,
                              CriticalEntry(errorMessage), how)
          /\ appendCalls' = Append(appendCalls,
                [emiten |-> NULL, level |-> "error",
                 stored |-> how \in {"rpc", "fallback", "noselect"}])
    /\ pc' = "topUpdate"
    /\ UNCHANGED <<stock_queries, nextId, envVars, realWrites, lastSave,
                   handler, today, watchlistItems, idx, jobLogId, results,
                   errors, errorMessage, item, prevId, failedLogId, response>>
    /\ UNCHANGED <<authVars, brokerVars, extVars>>

\* top-level catch with a job log: await updateBackgroundJobLog, which is
\* not guarded: when it throws the handler ends with that error and no
\* response
TopUpdate ==
    /\ pc = "topUpdate"
    /\ \/ /\ job_logs' = updateBackgroundJobLog(job_logs, jobLogId,
                                                FailedUpdate(errorMessage))
          /\ response' = FailResponse
          /\ pc' = "done"
       \/ /\ pc' = "rejected"
          /\ UNCHANGED <<job_logs, response>>
    /\ UNCHANGED <<stock_queries, nextId, envVars, histVars, handler, today,
                   watchlistItems, idx, jobLogId, results, errors,
                   errorMessage, item, prevId, failedLogId>>
    /\ UNCHANGED <<authVars, brokerVars, extVars>>

\* top-level catch without a job log: await createBackgroundJobLog(.., 0),
\* a failure is caught and logged
TopCreate ==
    /\ pc = "topCreate"
    /\ \/ /\ job_logs' = createBackgroundJobLog(job_logs, 0)
          /\ failedLogId' = Len(job_logs')
          /\ pc' = "topFailUpdate"
          /\ UNCHANGED response
       \/ /\ response' = FailResponse
          /\ pc' = "done"
          /\ UNCHANGED <<job_logs, failedLogId>>
    /\ UNCHANGED <<stock_queries, nextId, envVars, histVars, handler, today,
                   watchlistItems, idx, jobLogId, results, errors,
                   errorMessage, item, prevId>>
    /\ UNCHANGED <<authVars, brokerVars, extVars>>

\* variant: the update of the failed log is not guarded, and its failure
\* ends the handler without a response
TopFailUpdateUnguarded ==
    /\ pc = "topFailUpdate"
    /\ \/ /\ job_logs' = updateBackgroundJobLog(job_logs, failedLogId,
                                                FailedUpdate(errorMessage))
          /\ response' = FailResponse
          /\ pc' = "done"
       \/ /\ pc' = "rejected"
          /\ UNCHANGED <<job_logs, response>>
    /\ UNCHANGED <<stock_queries, nextId, envVars, histVars, handler, today,
                   watchlistItems, idx, jobLogId, results, errors,
                   errorMessage, item, prevId, failedLogId>>
    /\ UNCHANGED <<authVars, brokerVars, extVars>>

\* top-level catch without a job log: await updateBackgroundJobLog(
\* failedLog.id, ...), a failure is caught and logged
TopFailUpdate ==
    /\ pc = "topFailUpdate"
    /\ \/ job_logs' = updateBackgroundJobLog(job_logs, failedLogId,
                                             FailedUpdate(errorMessage))
       \/ UNCHANGED job_logs
    /\ response' = FailResponse
    /\ pc' = "done"
    /\ UNCHANGED <<stock_queries, nextId, envVars, histVars, handler, today,
                   watchlistItems, idx, jobLogId, results, errors,
                   errorMessage, item, prevId, failedLogId>>
    /\ UNCHANGED <<authVars, brokerVars, extVars>>

\* POST /api/stock saves its result without awaiting it: one upsert, at any
\* time; st is the status column's default for an inserted row
StockQuerySave(datas) ==
    /\ queries < MaxQueries
    /\ queries' = queries + 1
    /\ \E e \in Emitens, d \in Dates, v \in datas, st \in {"success", NULL} :
          LET q == [from_date |-> d, emiten |-> e, sector |-> UNDEFINED,
                    data |-> v, status |-> st]
          IN  /\ stock_queries' = saveStockQuery(stock_queries, nextId, q)
              /\ nextId' = IF Cardinality(stock_queries') > Cardinality(stock_queries)
                           THEN nextId + 1 ELSE nextId
              /\ lastSave' = Some(SaveRecord("saveStockQuery", q, stock_queries))
    /\ UNCHANGED <<job_logs, jobVars, date, runs, realWrites, appendCalls>>
    /\ UNCHANGED <<authVars, brokerVars, extVars>>

\* a day passes between two invocations
NextDay ==
    /\ pc \in {"idle", "done", "rejected"}
    /\ date < MaxDate
    /\ date' = date + 1
    /\ UNCHANGED <<storeVars, jobVars, runs, queries, histVars>>
    /\ UNCHANGED <<authVars, brokerVars, extVars>>

(***************************************************************************)
(* The scheduled trigger and the retry endpoint.  Each invokes a function  *)
(* of the deployment by its URL; the scheduled function is deployed as     *)
(* analyze-watchlist, the batch function as analyze-watchlist-background.  *)
(***************************************************************************)
\* job names a client may post
JobNames == {"analyze-watchlist", "analyze-story"}

\* NextResponse.json / new Response of the two handlers: data is the parsed
\* body of the function's response, for the retry endpoint
HttpResponse(status, success, data) ==
    [status |-> status, success |-> success, data |-> data]

\* the retry endpoint: the request served, and the responses given so far
IdleRetry == [pc |-> "idle", jobName |-> NULL, responses |-> <<>>]

\* the scheduled function: the invocation served, what invoked it, and its
\* response
IdleTrigger == [pc |-> "idle", by |-> NULL, response |-> None]

\* occurrences of x in a sequence
CountOf(seq, x) == Cardinality({k \in DOMAIN seq : seq[k] = x})

\* the retry endpoint without the test of the job name
RetryAnyJob(names) ==
    /\ retry.pc = "idle"
    /\ Len(retry.responses) < MaxRetries
    /\ \E jobName \in names :
          retry' = [retry EXCEPT !.pc = "fetch", !.jobName = jobName]
    /\ UNCHANGED <<batchVars, authVars, brokerVars>>
    /\ UNCHANGED <<requests, trigger, pending, invoked, prevRun, stockCall, sessionOp>>

\* POST /api/job-retry with a job name: an unsupported job type is a 400,
\* else the endpoint fetches the function analyze-watchlist
RetryPost(names) ==
    /\ retry.pc = "idle"
    /\ Len(retry.responses) < MaxRetries
    /\ \E jobName \in names :
          IF jobName # "analyze-watchlist"
          THEN retry' = [retry EXCEPT
                  !.responses = Append(@, [jobName |-> jobName,
                       response |-> HttpResponse(400, FALSE, None)])]
          ELSE retry' = [retry EXCEPT !.pc = "fetch", !.jobName = jobName]
    /\ UNCHANGED <<batchVars, authVars, brokerVars>>
    /\ UNCHANGED <<requests, trigger, pending, invoked, prevRun, stockCall, sessionOp>>

\* the retry endpoint's fetch rejects: the catch block answers 500
RetryFetchRejected ==
    /\ retry.pc = "fetch"
    /\ retry' = [retry EXCEPT
          !.pc = "idle", !.jobName = NULL,
          !.responses = Append(@, [jobName |-> retry.jobName,
               response |-> HttpResponse(500, FALSE, None)])]
    /\ UNCHANGED <<batchVars, authVars, brokerVars>>
    /\ UNCHANGED <<requests, trigger, pending, invoked, prevRun, stockCall, sessionOp>>

\* the scheduled function is invoked: by its schedule, or by the request of
\* the retry endpoint
TriggerInvoked ==
    /\ trigger.pc = "idle"
    /\ \/ /\ CountOf(pending, "schedule") + CountOf(invoked, "schedule") < MaxRuns
          /\ trigger' = [pc |-> "fetch", by |-> "schedule", response |-> None]
          /\ UNCHANGED retry
       \/ /\ retry.pc = "fetch"
          /\ trigger' = [pc |-> "fetch", by |-> "retry", response |-> None]
          /\ retry' = [retry EXCEPT !.pc = "await"]
    /\ UNCHANGED <<batchVars, authVars, brokerVars>>
    /\ UNCHANGED <<requests, pending, invoked, prevRun, stockCall, sessionOp>>

\* the scheduled function's fetch of analyze-watchlist-background: the
\* platform accepts the POST with a 202 and runs the batch function, or
\* the fetch rejects and the catch block answers 500
TriggerFetch ==
    /\ trigger.pc = "fetch"
    /\ \/ /\ pending' = Append(pending, trigger.by)
          /\ trigger' = [trigger EXCEPT
                !.pc = "respond", !.response = Some(HttpResponse(200, TRUE, Some(202)))]
       \/ /\ pending' = pending
          /\ trigger' = [trigger EXCEPT
                !.pc = "respond", !.response = Some(HttpResponse(500, FALSE, None))]
    /\ UNCHANGED <<batchVars, authVars, brokerVars>>
    /\ UNCHANGED <<requests, retry, invoked, prevRun, stockCall, sessionOp>>

\* the scheduled function's response reaches what invoked it; the retry
\* endpoint parses it and answers success with it, whatever it says
TriggerResponds ==
    /\ trigger.pc = "respond"
    /\ trigger' = IdleTrigger
    /\ IF trigger.by = "retry"
       THEN retry' = [retry EXCEPT
               !.pc = "idle", !.jobName = NULL,
               !.responses = Append(@, [jobName |-> retry.jobName,
                    response |-> HttpResponse(200, TRUE, trigger.response)])]
       ELSE retry' = retry
    /\ UNCHANGED <<batchVars, authVars, brokerVars>>
    /\ UNCHANGED <<requests, pending, invoked, prevRun, stockCall, sessionOp>>

\* the platform runs the batch function for a POST it accepted
InvokeBackground ==
    /\ pending # <<>>
    /\ Invoke({"background"}, MaxRuns + MaxRetries)
    /\ pending' = Tail(pending)
    /\ invoked' = Append(invoked, Head(pending))
    /\ UNCHANGED <<requests, retry, trigger, prevRun, stockCall, sessionOp>>

\* "Missing required fields: emiten, fromDate, toDate"
S_MissingFields ==
    <<"M","i","s","s","i","n","g"," ","r","e","q","u","i","r","e","d"," ","f","i","e","l","d","s",":"," ","e","m","i","t","e","n",","," ","f","r","o","m","D","a","t","e",","," ","t","o","D","a","t","e">>
\* "Invalid Orderbook API response structure"
S_InvalidOrderbook ==
    <<"I","n","v","a","l","i","d"," ","O","r","d","e","r","b","o","o","k"," ","A","P","I"," ","r","e","s","p","o","n","s","e"," ","s","t","r","u","c","t","u","r","e">>

\* bodies of a request to POST /api/stock: "" and 0 are a missing symbol
\* and a missing date
StockInputs == [emiten : {"", "BBCA"}, fromDate : {0, 1}, toDate : {0, 1}]

\* obData of the order-book response: whether total_bid_offer is there,
\* and close, NULLNUM for undefined
Orderbooks == [total_bid_offer : BOOLEAN, close : {NULLNUM, 10}]

\* the modules of lib/stockbit the route may be built with
StockbitVariants == {"current", "earlier"}

\* no request to POST /api/stock
IdleStockCall ==
    [pc |-> "idle", body |-> None, variant |-> NULL, response |-> None,
     saveCalled |-> FALSE, save |-> None]

\* the JSON body and the status of a response of POST /api/stock; calculated
\* is None when the body has no data
StockResponse(status, success, error, calculated) ==
    [status |-> status, success |-> success, error |-> error,
     calculated |-> calculated]

\* the arguments calculateTargets is called with that the claims speak of
Calculated(broker, ob) ==
    [rataRataBandar |-> broker.rataRataBandar,
     barangBandar |-> broker.barangBandar, harga |-> ob.close]

\* a handler that answers a missing broker dataset with an empty result
StockThrownNullTolerant(broker, brokers, ob) ==
    IF broker.kind = "throw" THEN Some(broker.message)
    ELSE IF brokers.kind = "object" THEN Some(S_TypeError)
    ELSE IF ~ob.total_bid_offer \/ ob.close = NULLNUM THEN Some(S_InvalidOrderbook)
    ELSE None

\* what the code between Promise.all and the return throws, None when it
\* throws nothing: getTopBroker of the earlier variant, .slice of a
\* brokers_buy that is no array in getBrokerSummary, the order-book test,
\* and the read of brokerData.rataRataBandar of a null brokerData
StockThrown(broker, brokers, ob) ==
    IF broker.kind = "throw" THEN Some(broker.message)
    ELSE IF brokers.kind = "object" THEN Some(S_TypeError)
    ELSE IF ~ob.total_bid_offer \/ ob.close = NULLNUM THEN Some(S_InvalidOrderbook)
    ELSE IF broker.kind = "null" THEN Some(S_TypeError)
    ELSE None

\* request.json() and the validation of the input
StockPost(inputs) ==
    /\ stockCall.pc = "idle"
    /\ \E body \in inputs, v \in StockbitVariants :
          IF body.emiten = "" \/ body.fromDate = 0 \/ body.toDate = 0
          THEN stockCall' = [IdleStockCall EXCEPT
                   !.pc = "done", !.body = Some(body), !.variant = v,
                   !.response = Some(StockResponse(400, FALSE,
                                                   S_MissingFields, None))]
          ELSE stockCall' = [IdleStockCall EXCEPT
                   !.pc = "fetch", !.body = Some(body), !.variant = v]
    /\ brokers_buy' = NoBrokersBuy
    /\ brokerData' = None
    /\ brokerDataEarlier' = None
    /\ UNCHANGED <<batchVars, authVars>>
    /\ UNCHANGED <<requests, retry, trigger, pending, invoked, prevRun, sessionOp>>

\* await Promise.all([fetchMarketDetector, fetchOrderbook]) rejects: the
\* catch answers 500
StockFetchRejected(errs) ==
    /\ stockCall.pc = "fetch"
    /\ \E msg \in errs :
          stockCall' = [stockCall EXCEPT
              !.pc = "done",
              !.response = Some(StockResponse(500, FALSE, msg, None))]
    /\ brokers_buy' = NoResponse
    /\ UNCHANGED <<brokerData, brokerDataEarlier>>
    /\ UNCHANGED <<batchVars, authVars>>
    /\ UNCHANGED <<requests, retry, trigger, pending, invoked, prevRun, sessionOp>>

\* both responses are there: getTopBroker, getBrokerSummary, the order-book
\* test, calculateTargets, the save that is not awaited, and the response
StockFetched(responses, orderbooks) ==
    /\ stockCall.pc = "fetch"
    /\ \E b \in responses, ob \in orderbooks :
          LET broker == IF stockCall.variant = "earlier"
                        THEN getTopBrokerEarlier(b) ELSE getTopBroker(b)
              thrown == StockThrown(broker, b, ob)
              body == stockCall.body[1]
          IN  /\ brokers_buy' = b
              /\ IF stockCall.variant = "earlier"
                 THEN brokerDataEarlier' = Some(broker) /\ brokerData' = brokerData
                 ELSE brokerData' = Some(broker) /\ brokerDataEarlier' = brokerDataEarlier
              /\ IF thrown # None
                 THEN stockCall' = [stockCall EXCEPT
                          !.pc = "done",
                          !.response = Some(StockResponse(500, FALSE,
                                                          thrown[1], None))]
                 ELSE stockCall' = [stockCall EXCEPT
                          !.pc = "done",
                          !.saveCalled = TRUE,
                          !.save = Some([from_date |-> body.fromDate,
                                         emiten |-> body.emiten,
                                         sector |-> UNDEFINED,
                                         data |-> broker.rataRataBandar,
                                         status |-> "success"]),
                          !.response = Some(StockResponse(200, TRUE, <<>>,
                                              Some(Calculated(broker, ob))))]
    /\ UNCHANGED <<batchVars, authVars>>
    /\ UNCHANGED <<requests, retry, trigger, pending, invoked, prevRun, sessionOp>>

\* the save that was not awaited settles: the upsert, or a rejection that
\* .catch only logs
StockSaveSettles ==
    /\ stockCall.save # None
    /\ stockCall' = [stockCall EXCEPT !.save = None]
    /\ \/ LET q == stockCall.save[1]
          IN  /\ stock_queries' = saveStockQuery(stock_queries, nextId, q)
              /\ nextId' = IF Cardinality(stock_queries') > Cardinality(stock_queries)
                           THEN nextId + 1 ELSE nextId
              /\ lastSave' = Some(SaveRecord("saveStockQuery", q, stock_queries))
       \/ UNCHANGED <<stock_queries, nextId, lastSave>>
    /\ UNCHANGED <<job_logs, jobVars, envVars, realWrites, appendCalls>>
    /\ UNCHANGED <<authVars, brokerVars>>
    /\ UNCHANGED <<requests, retry, trigger, pending, invoked, prevRun, sessionOp>>

\* the response is sent, and the route can serve the next request
StockResponded ==
    /\ stockCall.pc = "done"
    /\ stockCall.save = None
    /\ stockCall' = IdleStockCall
    /\ UNCHANGED <<batchVars, authVars, brokerVars>>
    /\ UNCHANGED <<requests, retry, trigger, pending, invoked, prevRun, sessionOp>>

(***************************************************************************)
(* The data-provider client: the token cache of the process, the session   *)
(* row of the store, and the calls in flight.                              *)
(***************************************************************************)
\* const TOKEN_CACHE_DURATION = 60000
TOKEN_CACHE_DURATION == 60000
\* expiresAt.setHours(expiresAt.getHours() + hoursFromNow): an hour of the
\* clock, in milliseconds
HOUR == 3600000

\* the concurrent data-provider calls of one process (the fan-out of a
\* symbol, requests served at the same time)
Callers == {"a", "b"}
\* bearer tokens: the one a later login saves, and the environment's
StoreTokens == {"jwtB"}
EnvTokens == {UNDEFINED, "jwtEnv"}
\* elapsed milliseconds of the successive passages of time: up to the last
\* millisecond of the cache duration, then over it, and so on
Deltas == <<TOKEN_CACHE_DURATION - 1, 1>>
\* response statuses of the provider, and their texts
Statuses == {204, 401, 500}
StatusText(status) ==
    CASE status = 204 -> <<"N", "o", " ", "C", "o", "n", "t", "e", "n", "t">>
      [] status = 401 -> S_Unauthorized
      [] OTHER -> S_InternalServerError

\* JS truthiness of a string | null | undefined
Truthy(v) == v # NULL /\ v # UNDEFINED /\ v # ""

\* a row of table session for key 'stockbit_token'; last_used_at is kept as
\* the kind of write that set it: "saved" by an upsert, "used" by
\* updateTokenLastUsed; expires_at is a time, NULLNUM for null
SessionRow(value, is_valid, last_used_at, expires_at) ==
    [value |-> value, is_valid |-> is_valid, last_used_at |-> last_used_at,
     expires_at |-> expires_at]

\* getSessionValue('stockbit_token'): a store error or no row gives null;
\* is_valid is not read
getSessionValue(row, ok) ==
    IF ~ok \/ row = None THEN NULL ELSE row[1].value

\* upsertSession(key, value, expiresAt): expires_at is null (NULLNUM) when
\* expiresAt is not given
upsertSession(row, value, expiresAt) ==
    Some(SessionRow(value, TRUE, "saved", expiresAt))

\* updateTokenLastUsed(): a store error is only logged
updateTokenLastUsed(row, ok) ==
    IF ~ok \/ row = None THEN row ELSE Some([row[1] EXCEPT !.last_used_at = "used"])

\* an invalidation that also clears the token
InvalidateTokenClearsValue(row, ok) ==
    IF ~ok \/ row = None THEN row
    ELSE Some([row[1] EXCEPT !.is_valid = FALSE, !.value = ""])

\* invalidateToken(): a store error is only logged
invalidateToken(row, ok) ==
    IF ~ok \/ row = None THEN row ELSE Some([row[1] EXCEPT !.is_valid = FALSE])

\* setTokenExpiry(hoursFromNow): expires_at is the time of the call plus
\* the hours; a store error is only logged
setTokenExpiry(row, now, hoursFromNow, ok) ==
    IF ~ok \/ row = None THEN row
    ELSE Some([row[1] EXCEPT !.expires_at = now + hoursFromNow * HOUR])

\* a cache test that still holds at exactly one minute
CacheValidInclusive(cached, lastFetched, at) ==
    Truthy(cached) /\ (at - lastFetched) <= TOKEN_CACHE_DURATION

\* getAuthToken: cachedToken && (now - tokenLastFetched) < TOKEN_CACHE_DURATION
CacheValid(cached, lastFetched, at) ==
    Truthy(cached) /\ (at - lastFetched) < TOKEN_CACHE_DURATION

\* a resolution that prefers the environment to the store
ResolveTokenEnvFirst(token, env) ==
    IF Truthy(env) THEN [source |-> "env", value |-> env]
    ELSE IF Truthy(token) THEN [source |-> "store", value |-> token]
    ELSE [source |-> "throw", value |-> NULL]

\* getAuthToken after the store query: the store's token, else
\* process.env.STOCKBIT_JWT_TOKEN, else the error
ResolveToken(token, env) ==
    IF ~Truthy(token)
    THEN IF ~Truthy(env)
         THEN [source |-> "throw", value |-> NULL]
         ELSE [source |-> "env", value |-> env]
    ELSE [source |-> "store", value |-> token]

\* a classification that takes only 200 for success
ClassifyOnly200(status) ==
    IF status = 401 THEN "expired"
    ELSE IF status # 200 THEN "error"
    ELSE "ok"

\* handleApiResponse: response.status === 401, then !response.ok
\* (ok is a status of 200..299)
Classify(status) ==
    IF status = 401 THEN "expired"
    ELSE IF ~(status >= 200 /\ status <= 299) THEN "error"
    ELSE "ok"

\* the error objects of the client
NoError == [name |-> "none", message |-> <<>>]
ThrownError(name, message) == [name |-> name, message |-> message]

\* a caller that is in no call
IdleCall ==
    [pc |-> "idle", now |-> 0, bearer |-> NULL, source |-> "none",
     readOk |-> FALSE, status |-> 0]

\* the end of a call: the response is returned to the caller, or the
\* error is thrown to it; status is 0 when no request was sent, queryOk
\* tells whether the last store call of the call succeeded
Outcome(p, kind, status, error, queryOk) ==
    [caller |-> p, kind |-> kind, status |-> status, error |-> error,
     queryOk |-> queryOk]
\* the last step ended no call
NoOutcome == Outcome("a", "none", 0, NoError, FALSE)

\* getHeaders/getAuthToken is called: the cached token is returned and the
\* request sent, or getSessionValue is awaited
GetAuthTokenBegin(p) ==
    /\ calls[p].pc = "idle"
    /\ ncalls < MaxCalls
    /\ ncalls' = ncalls + 1
    /\ got401' = FALSE
    /\ IF CacheValid(cachedToken, tokenLastFetched, clock)
       THEN /\ calls' = [calls EXCEPT ![p] =
                  [IdleCall EXCEPT !.pc = "fetch", !.now = clock,
                                   !.bearer = cachedToken, !.source = "cache"]]
       ELSE /\ calls' = [calls EXCEPT ![p] =
                  [IdleCall EXCEPT !.pc = "getSession", !.now = clock]]
    /\ outcome' = NoOutcome
    /\ UNCHANGED <<cachedToken, tokenLastFetched, clock, ticks, session,
                   envToken, lastStoreFetch, obtained>>
    /\ UNCHANGED <<batchVars, brokerVars, extVars>>

\* getSessionValue resolves: the environment fallback, the error, or the
\* update of the cache; then the request is sent
GetAuthTokenResume(p) ==
    /\ calls[p].pc = "getSession"
    /\ \E ok \in BOOLEAN :
          LET token == getSessionValue(session, ok)
              r == ResolveToken(token, envToken)
          IN  /\ calls' = [calls EXCEPT ![p] =
                    IF r.source = "throw" THEN IdleCall
                    ELSE [@ EXCEPT !.pc = "fetch", !.bearer = r.value,
                                   !.source = r.source, !.readOk = ok]]
              /\ outcome' = IF r.source = "throw"
                            THEN Outcome(p, "threw", 0,
                                         ThrownError("Error", S_NoTokenFound), ok)
                            ELSE NoOutcome
              /\ IF r.source = "store"
                 THEN /\ cachedToken' = r.value
                      /\ tokenLastFetched' = calls[p].now
                      /\ lastStoreFetch' = Some([token |-> r.value, at |-> calls[p].now])
                 ELSE UNCHANGED <<cachedToken, tokenLastFetched, lastStoreFetch>>
              /\ obtained' = IF r.source = "throw" THEN obtained
                             ELSE Some([token |-> r.value, at |-> calls[p].now])
    /\ UNCHANGED <<clock, ticks, session, envToken, ncalls, got401>>
    /\ UNCHANGED <<batchVars, brokerVars, extVars>>

\* fetch resolves and handleApiResponse(response, apiName) runs: up to the
\* await of invalidateToken for a 401, to its throw for another status that
\* is not ok, and to its end, with updateTokenLastUsed not awaited, otherwise
HandleApiResponse(p) ==
    /\ calls[p].pc = "fetch"
    /\ \E status \in Statuses :
          LET class == Classify(status)
          IN  /\ calls' = [calls EXCEPT ![p] =
                    IF class = "expired"
                    THEN [@ EXCEPT !.status = status, !.pc = "invalidate"]
                    ELSE IdleCall]
              /\ outcome' =
                    CASE class = "expired" -> NoOutcome
                      [] class = "error" ->
                            Outcome(p, "threw", status,
                                ThrownError("Error",
                                    HttpErrorMessage(S_MarketDetectorAPI,
                                        NumberText(status), StatusText(status))),
                                calls[p].readOk)
                      [] OTHER -> Outcome(p, "returned", status, NoError,
                                          calls[p].readOk)
              /\ got401' = (got401 \/ class = "expired")
              /\ IF class = "ok"
                 THEN \E ok \in BOOLEAN :
                         session' = updateTokenLastUsed(session, ok)
                 ELSE session' = session
    /\ UNCHANGED <<cachedToken, tokenLastFetched, clock, ticks, envToken, ncalls,
                   lastStoreFetch, obtained>>
    /\ UNCHANGED <<batchVars, brokerVars, extVars>>

\* invalidateToken resolves: cachedToken = null and the TokenExpiredError
InvalidateDone(p) ==
    /\ calls[p].pc = "invalidate"
    /\ \E ok \in BOOLEAN :
          /\ session' = invalidateToken(session, ok)
          /\ calls' = [calls EXCEPT ![p] = IdleCall]
          /\ outcome' = Outcome(p, "threw", calls[p].status,
                              ThrownError("TokenExpiredError",
                                  TokenExpiredMessage(S_MarketDetectorAPI)), ok)
    /\ cachedToken' = NULL
    /\ lastStoreFetch' = None
    /\ UNCHANGED <<tokenLastFetched, clock, ticks, envToken, ncalls,
                   obtained, got401>>
    /\ UNCHANGED <<batchVars, brokerVars, extVars>>

\* a login saves a token: upsertSession('stockbit_token', value, expiresAt)
SaveToken ==
    /\ \E v \in StoreTokens :
          /\ IF session = None THEN TRUE
             ELSE session[1].value # v \/ ~session[1].is_valid
          /\ session' = upsertSession(session, v, NULLNUM)
    /\ UNCHANGED <<cachedToken, tokenLastFetched, clock, ticks, envToken, calls,
                   ncalls, lastStoreFetch, obtained, got401>>
    /\ outcome' = NoOutcome
    /\ UNCHANGED <<batchVars, brokerVars, extVars>>

\* time passes
Tick ==
    /\ ticks < MaxTicks
    /\ ticks' = ticks + 1
    /\ clock' = clock + Deltas[(ticks % Len(Deltas)) + 1]
    /\ UNCHANGED <<cachedToken, tokenLastFetched, session, envToken, calls,
                   ncalls, lastStoreFetch, obtained, got401>>
    /\ outcome' = NoOutcome
    /\ UNCHANGED <<batchVars, brokerVars, extVars>>

\* the client of a process that has made no call
ClientInit ==
    /\ cachedToken = NULL
    /\ tokenLastFetched = 0
    /\ clock = 2 * TOKEN_CACHE_DURATION
    /\ ticks = 0
    /\ calls = [p \in Callers |-> IdleCall]
    /\ ncalls = 0
    /\ lastStoreFetch = None
    /\ obtained = None
    /\ got401 = FALSE
    /\ outcome = NoOutcome

\* a client the batch specifications leave alone
ClientIdle ==
    /\ ClientInit
    /\ session = None
    /\ envToken = UNDEFINED

\* the store before the first invocation
StoreInit ==
    /\ stock_queries = {}
    /\ nextId = 1
    /\ job_logs = <<>>

\* no invocation yet
JobInit ==
    /\ pc = "idle"
    /\ handler = "background"
    /\ today = 1
    /\ watchlistItems = <<>>
    /\ idx = 0
    /\ jobLogId = 0
    /\ results = <<>>
    /\ errors = <<>>
    /\ errorMessage = <<>>
    /\ item = None
    /\ prevId = 0
    /\ failedLogId = 0
    /\ response = None
    /\ runs = 0
    /\ queries = 0
    /\ realWrites = <<>>
    /\ appendCalls = <<>>
    /\ lastSave = None

\* no request to the retry endpoint, the trigger or POST /api/stock
ExtIdle ==
    /\ requests = {}
    /\ retry = IdleRetry
    /\ trigger = IdleTrigger
    /\ pending = <<>>
    /\ invoked = <<>>
    /\ prevRun = None
    /\ stockCall = IdleStockCall
    /\ sessionOp = "none"

vars == <<batchVars, authVars, brokerVars, extVars>>

(***************************************************************************)
(* SpecRuns: invocations of the route handler over several days, with      *)
(* interactive saves in between.                                           *)
(***************************************************************************)
RunsInit ==
    /\ StoreInit
    /\ JobInit
    /\ date = 1
    /\ ClientIdle
    /\ BrokerIdle
    /\ ExtIdle

RunsNext ==
    \/ Start({"route"}, MaxRuns)
    \/ FetchWatchlist({<<"BBCA">>}, {S_NoWatchlistFound})
    \/ FanOut({HttpErrorMessage(S_OrderbookAPI, S_500, S_InternalServerError)},
              {NoBrokersBuy, OneBrokerBuy}, {1}, {UNDEFINED})
    \/ SaveAnalysis({[instanceOfError |-> TRUE, message |-> S_DbAuth]})
    \/ FetchHistory({10}, Optional({30}))
    \/ FindPreviousRecord
    \/ UpdatePreviousRecord
    \/ StockQuerySave({3})
    \/ NextDay

SpecRuns == RunsInit /\ [][RunsNext]_vars

(***************************************************************************)
(* Spec: one invocation of the batch handler with every failure the code   *)
(* handles.                                                                *)
(***************************************************************************)
\* a store a run of the day before left: nothing, or the record of a symbol
PriorStores ==
    {{}, {[StockRow(1, "BBCA", NULL, 1, "success") EXCEPT !.id = 1]}}

Init ==
    /\ stock_queries \in PriorStores
    /\ nextId = Cardinality(stock_queries) + 1
    /\ job_logs = <<>>
    /\ JobInit
    /\ date = 2
    /\ ClientIdle
    /\ BrokerIdle
    /\ ExtIdle

Next ==
    \/ Start({"background", "route"}, 1)
    \/ FetchWatchlist(Watchlists, WatchlistErrors)
    \/ CreateJobLog
    \/ FanOut(FanOutErrors, MarketDetectorResponses, {1}, Sectors \cup {UNDEFINED})
    \/ SaveAnalysis(ThrownDbErrors)
    \/ FetchHistory({10}, Optional({20}))
    \/ FindPreviousRecord
    \/ UpdatePreviousRecord
    \/ AppendWarn
    \/ AppendInfo
    \/ AppendError
    \/ FinalStatusUpdate(ThrownDbErrors)
    \/ TopAppend
    \/ TopUpdate
    \/ TopCreate
    \/ TopFailUpdate

Spec == Init /\ [][Next]_vars


(***************************************************************************)
(* SpecFan: one invocation of the batch handler with the three requests of *)
(* each fan-out issued and settled one by one.                             *)
(***************************************************************************)
FanNext ==
    \/ Start({"background", "route"}, 1)
    \/ FetchWatchlist({<<"BBCA">>, <<"BBCA", "TLKM">>}, {S_NoWatchlistFound})
    \/ CreateJobLog
    \/ IssueRequests
    \/ SettleRequest
    \/ FanOutFulfilled({NoBrokersBuy, OneBrokerBuy}, {1}, Sectors)
    \/ SaveAnalysis({[instanceOfError |-> TRUE, message |-> S_DbAuth]})
    \/ FetchHistory({10}, {Some(20)})
    \/ FindPreviousRecord
    \/ UpdatePreviousRecord
    \/ AppendWarn
    \/ AppendInfo
    \/ AppendError
    \/ FinalStatusUpdate({[instanceOfError |-> TRUE, message |-> S_DbAuth]})
    \/ TopAppend
    \/ TopUpdate
    \/ TopCreate
    \/ TopFailUpdate

SpecFan == Init /\ [][FanNext]_vars

(***************************************************************************)
(* SpecRetry: the scheduled function fired by its schedule and by requests *)
(* to the retry endpoint, and the runs of the batch function they start.   *)
(***************************************************************************)
RetryNext ==
    \/ RetryPost(JobNames)
    \/ RetryFetchRejected
    \/ TriggerInvoked
    \/ TriggerFetch
    \/ TriggerResponds
    \/ InvokeBackground
    \/ FetchWatchlist({<<>>}, {S_NoTokenFound})
    \/ TopCreate
    \/ TopFailUpdate

SpecRetry == RunsInit /\ [][RetryNext]_vars

(***************************************************************************)
(* SpecIdem: the batch handler invoked twice on one date, for a watchlist   *)
(* of one symbol with a record of the day before.                          *)
(***************************************************************************)
IdemNext ==
    \/ Rerun({"background", "route"}, 2)
    \/ FetchWatchlist({<<"BBCA">>}, {S_NoWatchlistFound})
    \/ CreateJobLog
    \/ FanOut({HttpErrorMessage(S_OrderbookAPI, S_500, S_InternalServerError)},
              {NoBrokersBuy, OneBrokerBuy}, DataVals, Sectors \cup {UNDEFINED})
    \/ SaveAnalysis({[instanceOfError |-> TRUE, message |-> S_DbAuth]})
    \/ FetchHistory({10}, {Some(20)})
    \/ FindPreviousRecord
    \/ UpdatePreviousRecord
    \/ AppendWarn
    \/ AppendInfo
    \/ AppendError
    \/ FinalStatusUpdate({[instanceOfError |-> TRUE, message |-> S_DbAuth]})
    \/ TopAppend
    \/ TopUpdate
    \/ TopCreate
    \/ TopFailUpdate

SpecIdem == Init /\ [][IdemNext]_vars

(***************************************************************************)
(* SpecAuth: concurrent data-provider calls of one process against the     *)
(* token cache and the session row, with time passing.                     *)
(***************************************************************************)
\* the session row when the process starts: none, an empty value, a token
SessionRows ==
    {None, Some(SessionRow("", TRUE, "saved", NULLNUM)),
     Some(SessionRow("jwtA", TRUE, "saved", NULLNUM))}

AuthInit ==
    /\ ClientInit
    /\ session \in SessionRows
    /\ envToken \in EnvTokens
    /\ StoreInit
    /\ JobInit
    /\ date = 1
    /\ BrokerIdle
    /\ ExtIdle

AuthNext ==
    \/ \E p \in Callers : GetAuthTokenBegin(p)
    \/ \E p \in Callers : GetAuthTokenResume(p)
    \/ \E p \in Callers : HandleApiResponse(p)
    \/ \E p \in Callers : InvalidateDone(p)
    \/ SaveToken
    \/ Tick

SpecAuth == AuthInit /\ [][AuthNext]_vars

(***************************************************************************)
(* SpecBroker: both variants of getTopBroker applied to one response.      *)
(***************************************************************************)
BrokerInit ==
    /\ brokers_buy \in BrokersBuyValues
    /\ brokerData = None
    /\ brokerDataEarlier = None
    /\ StoreInit
    /\ JobInit
    /\ date = 1
    /\ ClientIdle
    /\ ExtIdle

BrokerNext ==
    \/ CallGetTopBroker
    \/ CallGetTopBrokerEarlier

SpecBroker == BrokerInit /\ [][BrokerNext]_vars

(***************************************************************************)
(* SpecSession: the functions of the session store called in any order on  *)
(* the row of key 'stockbit_token', with time passing.                     *)
(***************************************************************************)
\* what a call of a session function leaves alone
SessionFrame ==
    /\ UNCHANGED <<cachedToken, tokenLastFetched, clock, ticks, envToken, calls,
                   ncalls, lastStoreFetch, obtained, got401, outcome>>
    /\ UNCHANGED <<batchVars, brokerVars>>
    /\ UNCHANGED <<requests, retry, trigger, pending, invoked, prevRun, stockCall>>

\* upsertSession('stockbit_token', value, expiresAt?): the upsert, or a
\* store error that is thrown
CallUpsertSession(values) ==
    /\ \E v \in values, x \in {NULLNUM, clock + HOUR} :
          \/ session' = upsertSession(session, v, x)
          \/ session' = session
    /\ sessionOp' = "upsertSession"
    /\ SessionFrame

\* updateTokenLastUsed()
CallUpdateTokenLastUsed ==
    /\ \E ok \in BOOLEAN : session' = updateTokenLastUsed(session, ok)
    /\ sessionOp' = "updateTokenLastUsed"
    /\ SessionFrame

\* invalidateToken()
CallInvalidateToken ==
    /\ \E ok \in BOOLEAN : session' = invalidateToken(session, ok)
    /\ sessionOp' = "invalidateToken"
    /\ SessionFrame

\* setTokenExpiry(hoursFromNow = 24)
CallSetTokenExpiry(hours) ==
    /\ \E h \in hours, ok \in BOOLEAN :
          session' = setTokenExpiry(session, clock, h, ok)
    /\ sessionOp' = "setTokenExpiry"
    /\ SessionFrame

SessionInit ==
    /\ ClientInit
    /\ session \in SessionRows
    /\ envToken = UNDEFINED
    /\ StoreInit
    /\ JobInit
    /\ date = 1
    /\ BrokerIdle
    /\ ExtIdle

SessionNext ==
    \/ CallUpsertSession(StoreTokens)
    \/ CallUpdateTokenLastUsed
    \/ CallInvalidateToken
    \/ CallSetTokenExpiry({1, 24})
    \/ Tick

SpecSession == SessionInit /\ [][SessionNext]_vars

(***************************************************************************)
(* SpecStock: requests to POST /api/stock, one after the other.            *)
(***************************************************************************)
StockInit ==
    /\ StoreInit
    /\ JobInit
    /\ date = 1
    /\ ClientIdle
    /\ BrokerIdle
    /\ ExtIdle

StockNext ==
    \/ StockPost(StockInputs)
    \/ StockFetchRejected({S_MarketDetectorAPI, S_OrderbookAPI})
    \/ StockFetched(BrokersBuyValues, Orderbooks)
    \/ StockSaveSettles
    \/ StockResponded

SpecStock == StockInit /\ [][StockNext]_vars

(***************************************************************************)
(* Properties.                                                             *)
(***************************************************************************)
\* rows of the table with the key of a save
RowsOfKey(from_date, emiten) ==
    {r \in stock_queries : r.from_date = from_date /\ r.emiten = emiten}

\* C1 (SpecRuns): after any sequence of saveWatchlistAnalysis and
\* saveStockQuery calls the table holds at most one row for each
\* (from_date, emiten), and the row of the last save carries the values that
\* save supplied: a save on an existing key overwrites, it adds no second row.
C1_OneRowPerKey ==
    /\ \A r1, r2 \in stock_queries :
          (r1.from_date = r2.from_date /\ r1.emiten = r2.emiten) => r1 = r2
    /\ lastSave # None =>
          LET s == lastSave[1]
              rows == RowsOfKey(s.from_date, s.emiten)
          IN  /\ Cardinality(rows) = 1
              /\ \A r \in rows :
                    /\ r.data = s.data
                    /\ s.kind = "saveWatchlistAnalysis" => r.status = "success"

\* a save has hit a row of its key that held other values
C1_Witness ==
    /\ lastSave # None
    /\ lastSave[1].existed
    /\ Cardinality(stock_queries) >= 2

\* the rows the lookup of updatePreviousDayRealPrice ranges over
PriorSuccess(table, emiten, currentDate) ==
    {r \in table : /\ r.emiten = emiten
                   /\ r.status = "success"
                   /\ r.from_date < currentDate}

\* C9 (SpecRuns): updatePreviousDayRealPrice changes at most one row, the
\* status-'success' row of the emiten with the greatest from_date strictly
\* before currentDate; it sets real_harga, and max_harga when a max price is
\* given, and nothing else; every other row, the row of currentDate
\* included, is unchanged; without such a prior row it changes nothing.
C9_BackfillFrame ==
    [][/\ (pc = "findPrev" /\ pc' = "updPrev") =>
             /\ stock_queries' = stock_queries
             /\ \E r \in PriorSuccess(stock_queries, Emiten, today) :
                   /\ r.id = prevId'
                   /\ \A q \in PriorSuccess(stock_queries, Emiten, today) :
                         q.from_date <= r.from_date
       /\ (pc = "findPrev" /\ pc' # "updPrev" /\ pc' # "findPrev") =>
             stock_queries' = stock_queries
       /\ (pc = "findPrev" /\ PriorSuccess(stock_queries, Emiten, today) = {}) =>
             pc' # "updPrev"
       /\ (pc = "updPrev" /\ pc' # "updPrev") =>
             /\ \A r \in stock_queries :
                   r.id # prevId => r \in stock_queries'
             /\ \A r \in stock_queries :
                   r.id = prevId =>
                      \/ r \in stock_queries'
                      \/ [r EXCEPT !.real_harga = item[1].close,
                                   !.max_harga = IF item[1].high = None
                                                 THEN @ ELSE item[1].high[1]]
                            \in stock_queries'
             /\ Cardinality(stock_queries') = Cardinality(stock_queries)
      ]_vars

\* the backfill wrote the later of two earlier rows of its symbol and left
\* the older one and the row of the analysis date alone
C9_Witness ==
    /\ realWrites # <<>>
    /\ pc = "fanout" \/ pc = "done"
    /\ LET w == realWrites[Len(realWrites)]
       IN  \E r \in stock_queries, o \in stock_queries, c \in stock_queries :
              /\ r.id = w.id /\ r.real_harga # NULLNUM /\ r.max_harga # NULLNUM
              /\ o.emiten = r.emiten /\ o.status = "success"
              /\ o.from_date < r.from_date /\ o.real_harga = NULLNUM
              /\ c.emiten = r.emiten /\ c.from_date = w.today
              /\ c.real_harga = NULLNUM

\* C10 as stated (SpecRuns): over any sequence of batch runs the realized
\* price of a record is written at most one time.
C10_WrittenAtMostOnce ==
    \A i, j \in DOMAIN realWrites :
        realWrites[i].id = realWrites[j].id => i = j

\* C10 as amended (SpecRuns): the realized price of a record is written
\* only by runs of one analysis date, later than the record's own date;
\* every run of that date writes it again.
C10_WrittenOnOneDate ==
    \A i, j \in DOMAIN realWrites :
        realWrites[i].id = realWrites[j].id =>
            /\ realWrites[i].today = realWrites[j].today
            /\ \A r \in stock_queries :
                  r.id = realWrites[i].id => r.from_date < realWrites[i].today

\* two runs of the same date have written the same record, one after the
\* other
C10_Witness ==
    \E i, j \in DOMAIN realWrites :
        /\ i < j
        /\ realWrites[i].id = realWrites[j].id
        /\ realWrites[i].today = realWrites[j].today

(***************************************************************************)
(* Properties of one invocation.                                           *)
(***************************************************************************)
\* entries of a list of {emiten, ...} records that name the symbol
CountIn(seq, e) == Cardinality({k \in DOMAIN seq : seq[k].emiten = e})

\* the run has a job log to append to
HasJobLog == handler = "background" /\ jobLogId # 0

\* entries of the run's job log that report a failure of the symbol
FailureEntries(e) ==
    IF jobLogId = 0 THEN 0
    ELSE Cardinality({k \in DOMAIN job_logs[jobLogId].log_entries :
            /\ job_logs[jobLogId].log_entries[k].emiten = e
            /\ job_logs[jobLogId].log_entries[k].level \in {"error", "warn"}})

\* the loop over the watchlist is over
LoopOver ==
    /\ watchlistItems # <<>>
    /\ pc \in {"final", "done", "rejected", "topAppend", "topUpdate",
               "topCreate", "topFailUpdate"}

\* C3 as stated (Spec): every symbol whose processing failed has exactly
\* one entry in the error list and exactly one entry in the job log, and
\* the loop reaches the end of the watchlist.
C3_ErrorListAndJobLog ==
    /\ LoopOver => idx = Len(watchlistItems) + 1
    /\ \A k \in 1..Len(watchlistItems) :
          (k < idx /\ CountIn(results, watchlistItems[k]) = 0) =>
              /\ CountIn(errors, watchlistItems[k]) = 1
              /\ FailureEntries(watchlistItems[k]) = 1

\* C3 as amended (Spec): every processed symbol is exactly once in the
\* error list or in the result list; the background function, when it has
\* created a job log, makes exactly one append call for the symbol, of level
\* error or warn when the symbol failed, and the log holds no more entries
\* than the store accepted; the route handler, and a background run whose
\* job log could not be created, append nothing; the loop reaches the end
\* of the watchlist whatever failed.
C3_ErrorListAndAppendCall ==
    /\ LoopOver => idx = Len(watchlistItems) + 1
    /\ \A k \in 1..Len(watchlistItems) :
          LET e == watchlistItems[k]
              appends == {n \in DOMAIN appendCalls : appendCalls[n].emiten = e}
          IN  /\ CountIn(errors, e) + CountIn(results, e) <= 1
              /\ k < idx =>
                    /\ CountIn(errors, e) + CountIn(results, e) = 1
                    /\ Cardinality(appends) = IF HasJobLog THEN 1 ELSE 0
                    /\ \A n \in appends :
                          (appendCalls[n].level \in {"error", "warn"})
                              <=> (CountIn(errors, e) = 1)
              /\ k > idx => CountIn(errors, e) + CountIn(results, e) = 0
    /\ ~HasJobLog => appendCalls = <<>>
    /\ jobLogId # 0 =>
          Len(job_logs[jobLogId].log_entries)
              <= Cardinality({n \in DOMAIN appendCalls : appendCalls[n].stored})

\* the first symbol of a watchlist of two failed and was logged, the second
\* was analysed
C3_Witness ==
    /\ pc = "done"
    /\ HasJobLog
    /\ Len(watchlistItems) = 2
    /\ CountIn(errors, watchlistItems[1]) = 1
    /\ CountIn(results, watchlistItems[2]) = 1
    /\ FailureEntries(watchlistItems[1]) = 1

\* an error has reached the top-level catch of the background function and
\* the invocation is over
TopLevelCaught ==
    /\ handler = "background"
    /\ pc \in {"done", "rejected"}
    /\ errorMessage # <<>>

\* C7 (Spec): when an error reaches the top-level catch of the batch job,
\* the log of the job is set to status 'failed', the response is a 500 with
\* success false, and isTokenError is true exactly when the message
\* contains '401', 'unauthorized', 'token' or 'authentication'.
C7_TopLevelFailure ==
    TopLevelCaught =>
        /\ pc = "done"
        /\ response.status = 500
        /\ response.success = FALSE
        /\ response.isTokenError =
              Some(\/ Includes(errorMessage, S_401)
                   \/ Includes(errorMessage, S_unauthorized)
                   \/ Includes(errorMessage, S_token)
                   \/ Includes(errorMessage, S_authentication))
        /\ jobLogId # 0 => job_logs[jobLogId].status = "failed"


\* the steps of the backfill of a symbol
BackfillPcs == {"hist", "findPrev", "updPrev"}

\* C14 (Spec): the backfill of the previous record's realized price is
\* best-effort: however it ends, with a failed historical-summary fetch, a
\* failed lookup or a failed update included, the record saved for the
\* symbol is kept, the symbol is pushed to the result list and not to the
\* error list, no other store row changes but the prior record when the
\* update succeeds, and the loop goes on to the symbol's log entry or the
\* next symbol.
C14_BestEffortBackfill ==
    [][(pc \in BackfillPcs /\ pc' \notin BackfillPcs) =>
          /\ results' = Append(results, [emiten |-> Emiten, status |-> "success"])
          /\ errors' = errors
          /\ \E r \in stock_queries' :
                /\ r.emiten = Emiten
                /\ r.from_date = today
                /\ r.data = item[1].data
                /\ r.status = "success"
          /\ (pc # "updPrev") => stock_queries' = stock_queries
          /\ IF HasJobLog THEN pc' = "appendInfo"
             ELSE IF idx < Len(watchlistItems)
                  THEN pc' = "fanout" /\ idx' = idx + 1
                  ELSE pc' = "done" /\ response'.status = 200
      ]_vars

\* the backfill of the first symbol failed: its prior record has no realized
\* price, its record of today is saved, it is in the result list, and the
\* loop is at the second symbol
C14_Witness ==
    /\ Len(watchlistItems) = 2
    /\ idx = 2
    /\ errors = <<>>
    /\ CountIn(results, watchlistItems[1]) = 1
    /\ \E r \in stock_queries :
          /\ r.emiten = watchlistItems[1]
          /\ r.from_date < today
          /\ r.status = "success"
          /\ r.real_harga = NULLNUM
    /\ \E r \in stock_queries :
          r.emiten = watchlistItems[1] /\ r.from_date = today

\* C16 (Spec): a run that created a job log, in the loop or in its
\* top-level catch, has set that log to 'completed' or 'failed' when it
\* ends, with a response or with an error.
C16_JobLogClosed ==
    pc \in {"done", "rejected"} =>
        /\ jobLogId # 0 => job_logs[jobLogId].status \in {"completed", "failed"}
        /\ failedLogId # 0 => job_logs[failedLogId].status \in {"completed", "failed"}

\* C15 (SpecIdem): the per-symbol step is idempotent on the analysis
\* records: when a run has saved the record of its symbol and backfilled the
\* prior record, a later run on the same date that fetches the same data
\* leaves table stock_queries, at each of its steps and whatever fails in
\* it, as the earlier run left it: no row added, no column changed.
C15_Idempotent ==
    (/\ prevRun # None
     /\ prevRun[1].complete
     /\ lastSave[1].data = prevRun[1].save[1].data
     /\ lastSave[1].sector = prevRun[1].save[1].sector) =>
        stock_queries = prevRun[1].store

\* a second run on the date has saved the same record over the first run's
\* and written the realized price of the prior record a second time
C15_Witness ==
    /\ prevRun # None
    /\ prevRun[1].complete
    /\ pc = "done"
    /\ results # <<>>
    /\ lastSave[1].existed = FALSE
    /\ lastSave[1].data = prevRun[1].save[1].data
    /\ lastSave[1].sector = prevRun[1].save[1].sector
    /\ Len(realWrites) >= 2
    /\ realWrites[Len(realWrites)].id = realWrites[Len(realWrites) - 1].id

\* C19 (SpecStock): POST /api/stock for a symbol whose market-detector
\* response has no broker dataset answers with status 500 and success
\* false, returns no target prices, and does not call saveStockQuery.
C19_HardFailure ==
    /\ [](( /\ stockCall.pc = "done"
            /\ brokers_buy.kind # "none"
            /\ stockCall.body # None
            /\ stockCall.body[1].emiten # ""
            /\ stockCall.body[1].fromDate # 0
            /\ stockCall.body[1].toDate # 0
            /\ brokers_buy.kind # "array" \/ brokers_buy.items = <<>>) =>
              /\ stockCall.response[1].status = 500
              /\ stockCall.response[1].success = FALSE
              /\ stockCall.response[1].calculated = None
              /\ ~stockCall.saveCalled
              /\ stockCall.save = None)
    /\ [][( /\ stockCall.pc = "fetch"
            /\ stockCall'.pc = "done"
            /\ brokers_buy'.kind # "none"
            /\ brokers_buy'.kind # "array" \/ brokers_buy'.items = <<>>) =>
              /\ stockCall'.response[1].status = 500
              /\ stock_queries' = stock_queries
              /\ stockCall'.save = None]_vars

\* a request for BBCA got a market-detector response with an empty
\* brokers_buy, getTopBroker gave null, and the answer has status 500
C19_Witness ==
    /\ stockCall.pc = "done"
    /\ stockCall.body # None
    /\ brokers_buy = EmptyBrokersBuy
    /\ stockCall.variant = "current"
    /\ brokerData # None
    /\ stockCall.response # None
    /\ stockCall.response[1].status = 500
    /\ stockCall.response[1].error = S_TypeError

\* C20 (Spec): when a batch run reaches the final status update, every
\* watchlist symbol is in exactly one of the result list and the error
\* list, and the success_count and error_count the update writes add up to
\* the total_items the job log was created with.
C20_CountsAddUp ==
    /\ []( /\ pc = "final" =>
               /\ jobLogId # 0
               /\ \A k \in 1..Len(watchlistItems) :
                     CountIn(results, watchlistItems[k])
                         + CountIn(errors, watchlistItems[k]) = 1
               /\ Len(results) + Len(errors) = job_logs[jobLogId].total_items
           /\ \A j \in DOMAIN job_logs :
                 job_logs[j].success_count # NULLNUM =>
                     job_logs[j].success_count + job_logs[j].error_count
                         = job_logs[j].total_items)
    /\ [][(pc = "final" /\ job_logs' # job_logs) =>
              /\ job_logs'[jobLogId].success_count = Len(results)
              /\ job_logs'[jobLogId].error_count = Len(errors)
              /\ job_logs'[jobLogId].total_items = Len(watchlistItems)
              /\ job_logs'[jobLogId].total_items = job_logs[jobLogId].total_items
          ]_vars

\* the final status update of a run over two symbols wrote one success and
\* one error
C20_Witness ==
    /\ pc = "done"
    /\ jobLogId # 0
    /\ Len(watchlistItems) = 2
    /\ job_logs[jobLogId].total_items = 2
    /\ job_logs[jobLogId].success_count = 1
    /\ job_logs[jobLogId].error_count = 1

\* the status and the error message the final status update computes
ExpectedStatus ==
    IF Len(errors) > 0 /\ Len(results) = 0 THEN "failed" ELSE "completed"

\* the job log of the run has this status, and an error message exactly
\* when a symbol failed
LogClosedAsComputed(log) ==
    /\ log.status = ExpectedStatus
    /\ log.error_message # None <=> Len(errors) > 0

\* C21 as stated (Spec): when the loop over the watchlist has finished and
\* the run has returned its response, the job log's status is 'failed'
\* exactly when a symbol failed and none succeeded, 'completed' otherwise,
\* and error_message is set exactly when a symbol failed.
C21_FinalStatus ==
    (/\ HasJobLog
     /\ watchlistItems # <<>>
     /\ idx = Len(watchlistItems) + 1
     /\ pc = "done") => LogClosedAsComputed(job_logs[jobLogId])

\* C21 as amended (Spec): the final status update asks for status 'failed'
\* exactly when a symbol failed and none succeeded, for 'completed'
\* otherwise, and for an error_message exactly when a symbol failed; the
\* job log has these values when the store accepts the update and the run
\* answers 200. When the store rejects the update the log is left as it
\* was and the top-level catch takes over, whose own update sets 'failed'
\* with an error message whatever the symbols did.
C21_FinalStatusWritten ==
    /\ []((pc = "done" /\ HasJobLog /\ response.status = 200) =>
              LogClosedAsComputed(job_logs[jobLogId]))
    /\ [][/\ (pc = "final" /\ job_logs' # job_logs) =>
                /\ LogClosedAsComputed(job_logs'[jobLogId])
                /\ pc' = "done"
          /\ (pc = "final" /\ job_logs' = job_logs) => pc' = "topAppend"
          /\ (pc = "topUpdate" /\ job_logs' # job_logs) =>
                /\ job_logs'[jobLogId].status = "failed"
                /\ job_logs'[jobLogId].error_message # None
      ]_vars

\* a run over two symbols, one analysed and one failed, closed its log as
\* 'completed' with an error message
C21_Witness ==
    /\ pc = "done"
    /\ HasJobLog
    /\ Len(results) = 1
    /\ Len(errors) = 1
    /\ job_logs[jobLogId].status = "completed"
    /\ job_logs[jobLogId].error_message # None

\* the 500 response of the top-level catch carries the error that was
\* caught
OriginalError500(r, msg) ==
    /\ r.status = 500
    /\ r.success = FALSE
    /\ r.error = Some(msg)
    /\ r.isTokenError = Some(IsTokenError(msg))

\* C22 (Spec): when the background job fails at the top level before a job
\* log exists, the catch creates a job log with no items and sets it to
\* 'failed' with the error message; when the creation or the update fails,
\* the failure is swallowed; in every case the handler answers 500 with
\* the original error and never ends without a response.
C22_FailureLoggedOrSwallowed ==
    /\ []( /\ (pc = "rejected") => jobLogId # 0
           /\ (/\ handler = "background"
               /\ jobLogId = 0
               /\ pc = "done"
               /\ response.status = 500) =>
                  /\ OriginalError500(response, errorMessage)
                  /\ failedLogId # 0 =>
                        /\ job_logs[failedLogId].total_items = 0
                        /\ job_logs[failedLogId].status \in {"failed", "running"}
                        /\ job_logs[failedLogId].status = "failed" =>
                              job_logs[failedLogId].error_message
                                  = Some(TopLevelMessage(errorMessage)))
    /\ [][/\ (handler = "background" /\ jobLogId = 0 /\ errorMessage' # errorMessage
                /\ pc = "fetchWatchlist" /\ pc' # "fetchWatchlist") =>
                    pc' = "topCreate"
          /\ (pc = "topCreate" /\ pc' # "topCreate") =>
                IF job_logs' # job_logs
                THEN /\ job_logs' = createBackgroundJobLog(job_logs, 0)
                     /\ failedLogId' = Len(job_logs')
                     /\ pc' = "topFailUpdate"
                ELSE /\ pc' = "done"
                     /\ OriginalError500(response', errorMessage)
          /\ (pc = "topFailUpdate" /\ pc' # "topFailUpdate") =>
                /\ pc' = "done"
                /\ OriginalError500(response', errorMessage)
                /\ job_logs' # job_logs =>
                      /\ job_logs'[failedLogId].status = "failed"
                      /\ job_logs'[failedLogId].error_message
                            = Some(TopLevelMessage(errorMessage))
      ]_vars

\* the watchlist fetch failed, the catch created a log and closed it as
\* 'failed', and the handler answered 500
C22_Witness ==
    /\ handler = "background"
    /\ pc = "done"
    /\ jobLogId = 0
    /\ failedLogId # 0
    /\ job_logs[failedLogId].status = "failed"
    /\ job_logs[failedLogId].error_message = Some(TopLevelMessage(errorMessage))
    /\ response.status = 500

\* the background run goes on without a job log
WithoutJobLog ==
    /\ handler = "background"
    /\ jobLogId = 0
    /\ watchlistItems # <<>>

\* C23 (Spec): when the creation of the job log fails, the background job
\* goes on without logging: it processes every symbol of the watchlist and
\* saves the record of every symbol it analysed, makes no append and no
\* update call on a job log, and answers 200 with success true and
\* jobLogId null.
C23_ContinuesWithoutLog ==
    /\ []((WithoutJobLog /\ pc \notin {"fetchWatchlist", "createLog"}) =>
              /\ appendCalls = <<>>
              /\ pc \in {"fanout", "save", "hist", "findPrev", "updPrev", "done"}
              /\ pc = "done" =>
                    /\ idx = Len(watchlistItems) + 1
                    /\ response = Response(200, TRUE, Len(results), Len(errors),
                                           0, None, None)
                    /\ \A k \in 1..Len(watchlistItems) :
                          LET e == watchlistItems[k]
                          IN  /\ CountIn(results, e) + CountIn(errors, e) = 1
                              /\ CountIn(results, e) = 1 =>
                                    \E r \in stock_queries :
                                        /\ r.emiten = e
                                        /\ r.from_date = today
                                        /\ r.status = "success")
    /\ [][/\ (pc = "createLog" /\ pc' # "createLog" /\ job_logs' = job_logs) =>
                /\ jobLogId' = 0
                /\ pc' = "fanout"
                /\ idx' = 1
          /\ (WithoutJobLog /\ pc \in {"fanout", "save", "hist", "findPrev", "updPrev"}) =>
                /\ job_logs' = job_logs
                /\ appendCalls' = appendCalls
                /\ jobLogId' = 0
      ]_vars

\* the creation of the job log failed, both symbols were processed, one
\* record was saved, and the answer is 200 with jobLogId null
C23_Witness ==
    /\ WithoutJobLog
    /\ pc = "done"
    /\ Len(watchlistItems) = 2
    /\ Len(results) = 1
    /\ Len(errors) = 1
    /\ job_logs = <<>>
    /\ response.status = 200
    /\ response.jobLogId = 0

\* the error-list entry of the symbol says that it has no broker data
NoBrokerError(e) ==
    \E k \in DOMAIN errors :
        /\ errors[k].emiten = e
        /\ errors[k].error \in {S_NoBrokerDataAvailable, S_NoBrokerData}

\* entries of level 'warn' for the symbol in the run's job log
WarnEntries(e) ==
    IF jobLogId = 0 THEN 0
    ELSE Cardinality({k \in DOMAIN job_logs[jobLogId].log_entries :
            /\ job_logs[jobLogId].log_entries[k].emiten = e
            /\ job_logs[jobLogId].log_entries[k].level = "warn"})

\* the run has written no record of today for the symbol and the realized
\* price of none of the symbol's records
NothingWritten(e) ==
    /\ \A r \in stock_queries : ~(r.emiten = e /\ r.from_date = today)
    /\ \A r \in stock_queries : r.emiten = e => r.real_harga = NULLNUM

\* this step is the handler's continuation of a fan-out whose
\* market-detector response has no broker dataset
NoBrokerStep ==
    /\ pc = "fanout"
    /\ pc' # "fanout" \/ idx' # idx
    /\ brokers_buy'.kind # "none"
    /\ brokers_buy'.kind # "array" \/ brokers_buy'.items = <<>>

\* C18 as stated (Spec): a symbol whose broker dataset is missing gets no
\* analysis record and no backfill, is in the error list, has a 'warn'
\* entry in the job log, and the loop continues with the next symbol.
C18_WarnInJobLog ==
    /\ LoopOver => idx = Len(watchlistItems) + 1
    /\ \A k \in 1..Len(watchlistItems) :
          (k < idx /\ NoBrokerError(watchlistItems[k])) =>
              /\ NothingWritten(watchlistItems[k])
              /\ CountIn(errors, watchlistItems[k]) = 1
              /\ CountIn(results, watchlistItems[k]) = 0
              /\ WarnEntries(watchlistItems[k]) = 1

\* C18 as amended (Spec): when the market-detector response of a symbol has
\* no broker dataset, the batch job writes no analysis record and no
\* realized price for it, adds it once to the error list and not to the
\* result list, and continues with the next symbol; the background
\* function, when it has created a job log, first makes one append call of
\* level 'warn' for the symbol, and the entry is in the log only if the
\* store accepts it; the route handler, and a background run without a job
\* log, append nothing.
C18_NoBrokerDegrades ==
    /\ [](/\ LoopOver => idx = Len(watchlistItems) + 1
          /\ \A k \in 1..Len(watchlistItems) :
                LET e == watchlistItems[k]
                    appends == {n \in DOMAIN appendCalls : appendCalls[n].emiten = e}
                IN  (k < idx /\ NoBrokerError(e)) =>
                       /\ NothingWritten(e)
                       /\ CountIn(errors, e) = 1
                       /\ CountIn(results, e) = 0
                       /\ Cardinality(appends) = IF HasJobLog THEN 1 ELSE 0
                       /\ \A n \in appends : appendCalls[n].level = "warn"
                       /\ WarnEntries(e) <=
                             Cardinality({n \in appends : appendCalls[n].stored}))
    /\ [][/\ NoBrokerStep =>
                /\ errors' = Append(errors,
                      [emiten |-> Emiten,
                       error |-> IF handler = "background"
                                 THEN S_NoBrokerDataAvailable ELSE S_NoBrokerData])
                /\ results' = results
                /\ stock_queries' = stock_queries
                /\ IF HasJobLog THEN pc' = "appendWarn" /\ idx' = idx
                   ELSE IF idx < Len(watchlistItems)
                        THEN pc' = "fanout" /\ idx' = idx + 1
                        ELSE pc' = "done" /\ response'.status = 200
          /\ (pc = "appendWarn" /\ pc' # "appendWarn") =>
                /\ stock_queries' = stock_queries
                /\ errors' = errors
                /\ idx' = idx + 1
                /\ pc' = IF idx < Len(watchlistItems) THEN "fanout" ELSE "final"
      ]_vars

\* the first symbol of the background job had an empty brokers_buy: it has
\* its warning in the job log, no record, and the second symbol was
\* analysed and saved
C18_Witness ==
    /\ HasJobLog
    /\ Len(watchlistItems) = 2
    /\ pc = "done"
    /\ NoBrokerError(watchlistItems[1])
    /\ NothingWritten(watchlistItems[1])
    /\ WarnEntries(watchlistItems[1]) = 1
    /\ CountIn(results, watchlistItems[2]) = 1
    /\ \E r \in stock_queries :
          r.emiten = watchlistItems[2] /\ r.from_date = today

(***************************************************************************)
(* Properties of the loop over the watchlist.                              *)
(***************************************************************************)
\* the symbol is through: saved and backfilled, or recorded as failed
Accounted(e) == CountIn(results, e) + CountIn(errors, e) = 1

\* C11 (SpecFan): symbols are processed one at a time in watchlist order:
\* the record of a symbol is saved only when its market-detector,
\* order-book and company-info requests have all completed, the symbols
\* whose requests were issued are a prefix of the watchlist, and a request
\* of a symbol is issued only when every symbol before it is in the result
\* list, its record saved and its backfill over, or in the error list.
C11_OneSymbolAtATime ==
    /\ pc \in {"save", "hist", "findPrev", "updPrev", "appendInfo"} =>
          AllSettled(Emiten)
    /\ \A k \in 1..Len(watchlistItems) :
          LET e == watchlistItems[k]
          IN  /\ (\E r \in requests : r.emiten = e) =>
                    /\ k <= idx
                    /\ \A j \in 1..(k - 1) : Accounted(watchlistItems[j])
              /\ CountIn(results, e) = 1 =>
                    /\ AllSettled(e)
                    /\ \E r \in stock_queries :
                          r.emiten = e /\ r.from_date = today
              /\ (k < idx /\ pc # "idle") => Accounted(e)
    /\ \A r \in requests : \E k \in 1..Len(watchlistItems) :
          r.emiten = watchlistItems[k]

\* the market detector of the first symbol rejected while its order-book
\* request was in flight; the failure is recorded and the record of the
\* second symbol is saved with that request still in flight
C11_Witness ==
    /\ Len(watchlistItems) = 2
    /\ idx = 2
    /\ pc = "hist"
    /\ CountIn(errors, watchlistItems[1]) = 1
    /\ Request(watchlistItems[1], "orderbook", "pending") \in requests

\* a market-detector or order-book request of the symbol was rejected
CoreRequestRejected(e) ==
    \/ Request(e, "marketDetector", "rejected") \in requests
    \/ Request(e, "orderbook", "rejected") \in requests

\* C24 (SpecFan): a rejected company-info request does not fail the symbol:
\* the step changes neither the error list nor the handler's position, the
\* analysis goes on with the sector undefined, and when the symbol is
\* counted as a success its record is saved, without a sector.  A rejected
\* market-detector or order-book request of the symbol the loop awaits puts
\* the symbol in the error list, with no save; such a symbol is never in
\* the result list and has no record of the run.
C24_SectorIsOptional ==
    /\ [](\A k \in 1..Len(watchlistItems) :
            LET e == watchlistItems[k]
            IN  /\ CoreRequestRejected(e) =>
                      /\ CountIn(errors, e) = 1
                      /\ CountIn(results, e) = 0
                      /\ \A r \in stock_queries :
                            ~(r.emiten = e /\ r.from_date = today)
                /\ (/\ Request(e, "emitenInfo", "rejected") \in requests
                    /\ CountIn(results, e) = 1) =>
                      /\ CountIn(errors, e) = 0
                      /\ \E r \in stock_queries :
                            /\ r.emiten = e
                            /\ r.from_date = today
                            /\ r.status = "success"
                            /\ r.sector = NULL)
    /\ [][/\ \A e \in Emitens :
                (/\ Request(e, "emitenInfo", "pending") \in requests
                 /\ Request(e, "emitenInfo", "rejected") \in requests') =>
                    /\ errors' = errors
                    /\ results' = results
                    /\ pc' = pc
                    /\ idx' = idx
          /\ (/\ pc = "fanout"
              /\ pc' = "save"
              /\ Request(Emiten, "emitenInfo", "rejected") \in requests) =>
                    /\ item'[1].sector = UNDEFINED
                    /\ errors' = errors
          /\ \A a \in {"marketDetector", "orderbook"} :
                (/\ pc = "fanout"
                 /\ Request(Emiten, a, "pending") \in requests
                 /\ Request(Emiten, a, "rejected") \in requests') =>
                    /\ errors' = Append(errors,
                          [emiten |-> Emiten, error |-> RejectionOf(a)])
                    /\ results' = results
                    /\ stock_queries' = stock_queries
                    /\ pc' # "save"
      ]_vars

\* the company-info request of the first symbol was rejected, and the
\* symbol is in the result list with its record saved without a sector
C24_Witness ==
    /\ watchlistItems # <<>>
    /\ Request(watchlistItems[1], "emitenInfo", "rejected") \in requests
    /\ CountIn(results, watchlistItems[1]) = 1
    /\ \E r \in stock_queries :
          /\ r.emiten = watchlistItems[1]
          /\ r.from_date = today
          /\ r.sector = NULL

\* C25 (Spec): an appendBackgroundJobLogEntry call leaves the entries the
\* job log held before it unchanged and in order, and adds nothing but its
\* own entry after them: the entries before a step are a prefix of the
\* entries after it, which are at most one more.
C25_EarlierEntriesKept ==
    [][\A j \in DOMAIN job_logs :
          LET before == job_logs[j].log_entries
              after == job_logs'[j].log_entries
          IN  /\ Len(before) <= Len(after)
              /\ Len(after) <= Len(before) + 1
              /\ SubSeq(after, 1, Len(before)) = before
      ]_vars

\* the columns of the session row the step leaves as they were
KeepsColumns(cols) ==
    /\ session = None <=> session' = None
    /\ session # None => \A c \in cols : session'[1][c] = session[1][c]

\* C26 (SpecSession): in the session store is_valid becomes false only by
\* invalidateToken and true again only by upsertSession, which always
\* leaves it true; updateTokenLastUsed and setTokenExpiry leave is_valid
\* and the token value as they were, and invalidateToken leaves the token
\* value and expires_at as they were; no function removes the row.
C26_SessionFrame ==
    [][/\ session # None => session' # None
       /\ (session # None /\ session[1].is_valid /\ ~session'[1].is_valid) =>
              sessionOp' = "invalidateToken"
       /\ (session # None /\ ~session[1].is_valid /\ session'[1].is_valid) =>
              sessionOp' = "upsertSession"
       /\ (sessionOp' = "upsertSession" /\ session' # session) =>
              session'[1].is_valid
       /\ sessionOp' = "updateTokenLastUsed" =>
              KeepsColumns({"is_valid", "value", "expires_at"})
       /\ sessionOp' = "setTokenExpiry" =>
              KeepsColumns({"is_valid", "value", "last_used_at"})
       /\ sessionOp' = "invalidateToken" =>
              KeepsColumns({"value", "expires_at", "last_used_at"})
      ]_vars

\* a token that was used and given an expiry was invalidated, and still
\* has its value and its expiry
C26_Witness ==
    /\ session # None
    /\ sessionOp = "invalidateToken"
    /\ ~session[1].is_valid
    /\ session[1].value = "jwtA"
    /\ session[1].expires_at # NULLNUM
    /\ session[1].last_used_at = "used"

(***************************************************************************)
(* Properties of the retry endpoint.                                       *)
(***************************************************************************)
\* POSTs the platform accepted for the batch function, by what caused them
Delivered(by) == CountOf(pending, by) + CountOf(invoked, by)

\* requests to the retry endpoint answered so far that satisfy P
Answered(P(_)) == Cardinality({k \in DOMAIN retry.responses : P(retry.responses[k])})

IsSupportedJob(a) == a.jobName = "analyze-watchlist"

\* the answer wraps the scheduled function's report of a triggered job
IsTriggered(a) ==
    /\ a.response.status = 200
    /\ a.response.data # None
    /\ a.response.data[1].success

Begins(p) == calls[p].pc = "idle" /\ calls'[p].pc # "idle"

\* the getSessionValue query of caller p resolves in this step
Resolves(p) == calls[p].pc = "getSession" /\ calls'[p].pc # "getSession"

\* the response of caller p's request is handled in this step
Handles(p) == calls[p].pc = "fetch" /\ calls'[p].pc # "fetch"

\* C2 (SpecAuth): when a data-provider call has received a 401, the next
\* getAuthToken call queries the session store and does not return the
\* cached value, and when handleApiResponse has handled the 401 the cached
\* token is cleared and the stored token, if the store took the update, is
\* marked invalid.
C2_RefetchAfter401 ==
    [][\A p \in Callers :
          /\ (Begins(p) /\ got401) => calls'[p].pc = "getSession"
          /\ (calls[p].pc = "invalidate" /\ calls'[p].pc = "idle") =>
                /\ cachedToken' = NULL
                /\ (session # None /\ outcome'.queryOk) =>
                      session'[1].is_valid = FALSE
      ]_vars

\* C17 (SpecAuth): while the stored token is marked invalid, by the
\* invalidateToken of a 401 and with no upsertSession since, no getAuthToken
\* call gives its value to a request.
C17_InvalidTokenNotReturned ==
    [][\A p \in Callers :
          (/\ session # None
           /\ ~session[1].is_valid
           /\ calls[p].pc \in {"idle", "getSession"}
           /\ calls'[p].pc = "fetch") =>
              calls'[p].bearer # session[1].value
      ]_vars

\* C4 as stated (SpecAuth): once a getAuthToken call has obtained a token,
\* from the session store or from the environment, a call made less than
\* 60 seconds later returns that token without a query of the session
\* store, and a call made 60 seconds or more later queries the store.
C4_CachedOnceObtained ==
    [][\A p \in Callers :
          (Begins(p) /\ obtained # None) =>
              IF clock - obtained[1].at < 60000
              THEN /\ calls'[p].pc = "fetch"
                   /\ calls'[p].bearer = obtained[1].token
              ELSE calls'[p].pc = "getSession"
      ]_vars

\* C4 as amended (SpecAuth): a token fetched from the session store is
\* cached for one minute: a getAuthToken call that begins less than 60
\* seconds after the begin of the last call that fetched a token from the
\* store, with no 401 handled since, returns that token without a query of
\* the store; every other call queries the store, the calls 60 seconds or
\* more later and the calls after a token of the environment among them: a
\* token of the environment is returned and not cached.
C4_StoreTokenCached ==
    [][\A p \in Callers :
          /\ Begins(p) =>
                IF lastStoreFetch # None /\ clock - lastStoreFetch[1].at < 60000
                THEN /\ calls'[p].pc = "fetch"
                     /\ calls'[p].source = "cache"
                     /\ calls'[p].bearer = lastStoreFetch[1].token
                ELSE calls'[p].pc = "getSession"
          /\ (Resolves(p) /\ calls'[p].source = "env") =>
                /\ calls'[p].bearer = envToken
                /\ cachedToken' = cachedToken
                /\ tokenLastFetched' = tokenLastFetched
      ]_vars

\* one caller was given the cached token 59999 ms after the fetch from the
\* store, the other queries the store 60000 ms after it
C4_Witness ==
    /\ lastStoreFetch # None
    /\ \E p, q \in Callers :
          /\ calls[p].source = "cache"
          /\ calls[p].now - lastStoreFetch[1].at = 59999
          /\ calls[q].pc = "getSession"
          /\ calls[q].now - lastStoreFetch[1].at = 60000

\* C5 (SpecAuth): with no valid cached token getAuthToken queries the
\* session store; it returns the store's token when the query yields one,
\* else the STOCKBIT_JWT_TOKEN of the environment when that is set, and
\* else throws an error, and then no request is sent to the data provider.
C5_TokenResolution ==
    [][\A p \in Callers :
          /\ (Begins(p) /\ ~(cachedToken # NULL
                                /\ clock - tokenLastFetched < 60000)) =>
                calls'[p].pc = "getSession"
          /\ Resolves(p) =>
                LET value == IF session = None THEN NULL ELSE session[1].value
                    queryOk == IF calls'[p].pc = "idle" THEN outcome'.queryOk
                               ELSE calls'[p].readOk
                    has == queryOk /\ value \in {"jwtA", "jwtB"}
                IN  /\ has =>
                          /\ calls'[p].pc = "fetch"
                          /\ calls'[p].bearer = value
                    /\ (~has /\ envToken = "jwtEnv") =>
                          /\ calls'[p].pc = "fetch"
                          /\ calls'[p].bearer = "jwtEnv"
                    /\ (~has /\ envToken = UNDEFINED) =>
                          /\ calls'[p].pc = "idle"
                          /\ outcome'.kind = "threw"
                          /\ outcome'.status = 0
                          /\ outcome'.error.message = S_NoTokenFound
      ]_vars

\* the store holds a token, one caller was given it and the other, whose
\* query failed, the token of the environment
C5_Witness ==
    /\ session # None
    /\ \E p, q \in Callers :
          /\ calls[p].pc = "fetch" /\ calls[p].source = "store"
          /\ calls[p].bearer = session[1].value
          /\ calls[q].pc = "fetch" /\ calls[q].source = "env"
          /\ calls[q].bearer = envToken

\* C6 (SpecAuth): handleApiResponse throws the TokenExpiredError for a
\* status of 401, an Error whose message carries the status code and the
\* status text for any other status outside 200..299, and nothing for a
\* status of 200..299, which leaves the cached token and the stored
\* validity flag as they are.
C6_ResponseClasses ==
    /\ [](/\ outcome.kind = "returned" =>
                (outcome.status >= 200 /\ outcome.status <= 299)
          /\ (outcome.kind = "threw" /\ outcome.status # 0) =>
                IF outcome.status = 401
                THEN outcome.error.name = "TokenExpiredError"
                ELSE /\ outcome.status < 200 \/ outcome.status > 299
                     /\ outcome.error.name = "Error"
                     /\ Includes(outcome.error.message, NumberText(outcome.status))
                     /\ Includes(outcome.error.message, StatusText(outcome.status)))
    /\ [][\A p \in Callers :
             /\ Handles(p) =>
                   \/ /\ calls'[p].pc = "invalidate"
                      /\ calls'[p].status = 401
                   \/ /\ calls'[p].pc = "idle"
                      /\ outcome'.kind = "threw"
                      /\ outcome'.status # 401
                   \/ /\ calls'[p].pc = "idle"
                      /\ outcome'.kind = "returned"
                      /\ cachedToken' = cachedToken
                      /\ tokenLastFetched' = tokenLastFetched
                      /\ session # None =>
                            session'[1].is_valid = session[1].is_valid
             /\ (calls[p].pc = "invalidate" /\ calls'[p].pc = "idle") =>
                   /\ outcome'.kind = "threw"
                   /\ outcome'.status = 401
         ]_vars

\* a 204 was returned to one caller while the other, which received a 401,
\* waits for invalidateToken, the cached token still in place
C6_Witness ==
    /\ outcome.kind = "returned"
    /\ outcome.status = 204
    /\ cachedToken # NULL
    /\ \E q \in Callers : calls[q].pc = "invalidate" /\ calls[q].status = 401


(***************************************************************************)
(* Properties of getTopBroker.                                             *)
(***************************************************************************)
\* brokers_buy is missing, is no array, or is empty
NoBrokerDataset ==
    brokers_buy.kind # "array" \/ brokers_buy.items = <<>>

\* the first of the elements with the greatest bval
IsTopBroker(k) ==
    /\ k \in DOMAIN brokers_buy.items
    /\ \A n \in DOMAIN brokers_buy.items :
          /\ NumberOf(brokers_buy.items[n].bval) <= NumberOf(brokers_buy.items[k].bval)
          /\ n < k =>
                NumberOf(brokers_buy.items[n].bval) < NumberOf(brokers_buy.items[k].bval)

\* C8 (SpecBroker): the current getTopBroker returns null and throws
\* nothing when brokers_buy is missing, is not an array or is empty, the
\* earlier variant throws an error on exactly those inputs, and for a
\* non-empty brokers_buy both return the same broker data, that of the
\* element with the greatest bval.
C8_NullOrThrow ==
    /\ brokerData # None =>
          (brokerData[1].kind = "null" <=> NoBrokerDataset)
    /\ (brokerData # None /\ ~NoBrokerDataset) =>
          /\ brokerData[1].kind = "value"
          /\ \E k \in DOMAIN brokers_buy.items :
                /\ IsTopBroker(k)
                /\ brokerData[1].bandar = brokers_buy.items[k].netbs_broker_code
    /\ brokerDataEarlier # None =>
          (brokerDataEarlier[1].kind = "throw" <=> NoBrokerDataset)
    /\ (brokerData # None /\ brokerDataEarlier # None /\ ~NoBrokerDataset) =>
          brokerData[1] = brokerDataEarlier[1]

\* both variants were called on an empty array: null from the current one,
\* the error from the earlier one
C8_Witness ==
    /\ brokers_buy.kind = "array"
    /\ brokers_buy.items = <<>>
    /\ brokerData # None
    /\ brokerDataEarlier # None
    /\ brokerData[1].kind = "null"
    /\ brokerDataEarlier[1].kind = "throw"
    /\ brokerDataEarlier[1].message = S_NoBrokerDataFound

=============================================================================
